---- MODULE Spec2Model ----
(***************************************************************************)
(* State-machine model of the chameleon plugin runtime: the Manager        *)
(* (registry), the Loader, the per-plugin CircuitBreaker and the           *)
(* PluginMetrics collector.                                                *)
(*                                                                         *)
(* Every sync.Map operation, every atomic breaker operation and every call *)
(* into module code is one step; LoadPluginWithConfig, Call and Close are  *)
(* sequences of such steps so that goroutines interleave where the code    *)
(* lets them.                                                              *)
(***************************************************************************)
EXTENDS Integers, Sequences, FiniteSets, TLC

\* ------------------------------------------------------------------ bounds
\* number of LoadPluginWithConfig invocations explored
MaxLoads == 2
\* number of goroutines calling Manager.Call
MaxCallers == 2
\* number of Manager.Call invocations explored
MaxCalls == 4
\* number of Manager.Call invocations explored while a load races them
RaceCalls == 2
\* CircuitBreakerConfig.MaxFailures given to the loads
MaxFailures == 2
\* CircuitBreakerConfig.ResetInterval, in clock units
ResetInterval == 2
\* CircuitBreakerConfig.TimeoutDuration, in clock units
TimeoutDuration == 1
\* longest measured duration of a call, in clock units
MaxDuration == 2

\* number of events and errors of the directory watcher explored
MaxEvents == 3
\* number of goroutines in the operations of one breaker, beside its reset
\* loop, and number of operations they begin
MaxUsers == 2
MaxOps == 8
\* number of dot-separated parts of the version strings compared
MaxParts == 4
\* number of Manager.Close invocations, one after the other
MaxCloses == 2
\* number of goroutines calling PluginMetrics.RecordMetric directly
MaxRecorders == 2
\* number of RecordMetric invocations of those goroutines explored
MaxSamples == 3

Loaders == 1 .. MaxLoads
Callers == 1 .. MaxCallers
Recorders == 1 .. MaxRecorders

\* ------------------------------------------------------------- the inputs
\* Plugin artifacts on disk. A path is <<directory, file stem, extension>>.
Paths == { <<"v1", "p", ".so">>, <<"v2", "p", ".so">>, <<"v15", "p", ".so">> }

\* a second plugin of the plugin directory, of another name
OtherPath == <<"v1", "q", ".so">>

\* every artifact there is
Artifacts == Paths \cup {OtherPath}

\* artifacts that plugin.Open opens but that are not plugins of this runtime,
\* by what is wrong with them
Defects == {"noexport", "badexport", "nofunctions", "badfunctions",
            "emptyname", "nilfunc"}
BadPaths == { <<d, "p", ".so">> : d \in Defects }

\* Bureau.Version() of the module behind each artifact, a string of characters.
BureauVersion(path) ==
    CASE path[1] = "v1"  -> <<"1", ".", "0", ".", "0">>
      [] path[1] = "v2"  -> <<"2", ".", "0", ".", "0">>
      [] path[1] = "v15" -> <<"1", ".", "5", ".", "0">>
      [] OTHER           -> <<"0">>

\* The exported Functions table of each artifact: 2.0.0 adds the function g.
BureauFuncs(path) == IF path[1] = "v2" THEN {"f", "g"} ELSE {"f"}

\* plug.Lookup(sym) and the type of what it finds: "none" when the artifact
\* has no such symbol
Lookup(path, sym) ==
    CASE sym = "Export" /\ path[1] = "noexport"        -> "none"
      [] sym = "Export" /\ path[1] = "badexport"       -> "*string"
      [] sym = "Export"                                -> "*Bureau"
      [] sym = "Functions" /\ path[1] = "nofunctions"  -> "none"
      [] sym = "Functions" /\ path[1] = "badfunctions" -> "*[]InvokeFunc"
      [] sym = "Functions"                             -> "*map[string]InvokeFunc"
      [] OTHER                                         -> "none"

\* the entries of the Functions map of an artifact
FuncsMap(path) ==
    CASE path[1] = "emptyname" -> {[name |-> "f", fn |-> "func"],
                                   [name |-> "", fn |-> "func"]}
      [] path[1] = "nilfunc"   -> {[name |-> "f", fn |-> "func"],
                                   [name |-> "g", fn |-> "nil"]}
      [] OTHER -> {[name |-> n, fn |-> "func"] : n \in BureauFuncs(path)}

\* a validateFunc that looks at the name only
validateFuncName(name, fn) ==
    IF name = "" THEN "empty function name" ELSE "nil"

\* Loader.validateFunc: the error it returns, "nil" for none
validateFunc(name, fn) ==
    IF name = "" THEN "empty function name"
    ELSE IF fn = "nil" THEN "nil function"
    ELSE "nil"

\* Loader.validateAndCreatePlugin: "nil" when it returns a Plugin, else the
\* error (the range over the map stops at the first invalid entry, whichever
\* it meets first)
validateAndCreatePlugin(path) ==
    IF Lookup(path, "Export") = "none" THEN "no Export symbol"
    ELSE IF Lookup(path, "Export") # "*Bureau" THEN "not a *Bureau"
    ELSE IF Lookup(path, "Functions") = "none" THEN "no Functions symbol"
    ELSE IF Lookup(path, "Functions") # "*map[string]InvokeFunc"
         THEN "not a *map[string]InvokeFunc"
    ELSE IF \E e \in FuncsMap(path) : validateFunc(e.name, e.fn) # "nil"
         THEN "invalid function"
    ELSE "nil"

\* names and functions a caller may ask for ("q" is never provided, "g" only
\* by 2.0.0)
CallNames == {"p", "q"}
CallFuncs == {"f", "g"}
Names == {"p", "q"}

\* config.CircuitBreaker.Enabled of the configuration handed to invocation l
\* of LoadPluginWithConfig: the default configuration of NewManager's load
\* has it set, the configurations of the later invocations do not
CircuitBreakerEnabled(l) == l = 1

\* ---------------------------------------------------------------- helpers
getPluginNameFromPath(path) == path[Len(path) - 1]

Digits == <<"0", "1", "2", "3", "4", "5", "6", "7", "8", "9">>
IsDigit(ch) == \E i \in 1 .. 10 : Digits[i] = ch
DigitVal(ch) == (CHOOSE i \in 1 .. 10 : Digits[i] = ch) - 1

RECURSIVE DecVal(_)
DecVal(s) == IF s = <<>> THEN 0
             ELSE 10 * DecVal(SubSeq(s, 1, Len(s) - 1)) + DigitVal(s[Len(s)])

\* strconv.Atoi with the error dropped: 0 unless an optionally signed decimal
Atoi(s) ==
    LET body == IF s # <<>> /\ s[1] \in {"+", "-"} THEN Tail(s) ELSE s
    IN  IF body = <<>> \/ \E i \in 1 .. Len(body) : ~IsDigit(body[i]) THEN 0
        ELSE IF s[1] = "-" THEN 0 - DecVal(body) ELSE DecVal(body)

TrimPrefixV(s) == IF s # <<>> /\ s[1] = "v" THEN Tail(s) ELSE s

\* strings.Split(s, "."): always at least one part
RECURSIVE SplitDots(_)
SplitDots(s) ==
    IF \A i \in 1 .. Len(s) : s[i] # "."
    THEN <<s>>
    ELSE LET k == CHOOSE i \in 1 .. Len(s) :
                      s[i] = "." /\ \A j \in 1 .. i - 1 : s[j] # "."
         IN  <<SubSeq(s, 1, k - 1)>> \o SplitDots(SubSeq(s, k + 1, Len(s)))

RECURSIVE PadTo3(_)
PadTo3(parts) == IF Len(parts) < 3 THEN PadTo3(Append(parts, <<"0">>)) ELSE parts

\* the comparison loop from index i on: "true", "false", or "panic" when v2
\* is indexed past its end (index out of range)
RECURSIVE CompareFrom(_, _, _)
CompareFrom(v1, v2, i) ==
    IF i > Len(v1) THEN "false"
    ELSE IF i > Len(v2) THEN "panic"
    ELSE IF Atoi(v1[i]) > Atoi(v2[i]) THEN "true"
    ELSE IF Atoi(v1[i]) < Atoi(v2[i]) THEN "false"
    ELSE CompareFrom(v1, v2, i + 1)

\* (v1 and v2 are the parts of the two versions, split and padded once)
isHigherVersion(new, current) ==
    CHOOSE r \in { CompareFrom(v1, v2, 1) :
                      v1 \in {PadTo3(SplitDots(TrimPrefixV(new)))},
                      v2 \in {PadTo3(SplitDots(TrimPrefixV(current)))} } : TRUE

\* the version strings compared: up to MaxParts parts 1 or 2, and some with
\* a part that is no number, an empty part, or no part at all
RECURSIVE Dotted(_)
Dotted(ps) == IF Len(ps) = 1 THEN <<ps[1]>>
              ELSE <<ps[1], ".">> \o Dotted(Tail(ps))

Versions ==
    { Dotted(ps) : ps \in UNION { [1 .. n -> {"1", "2"}] : n \in 1 .. MaxParts } }
    \cup { <<>>, <<"1", ".", "x">>, <<"1", ".", ".", "2">>,
           <<"1", "0", ".", "2">> }

NoComparison == [new |-> <<>>, current |-> <<>>, fwd |-> "none", back |-> "none"]

\* the goroutines that use the breaker of the atomic-by-atomic model, one of
\* them outside any operation, and that breaker as NewCircuitBreaker makes it
Users == 1 .. MaxUsers

IdleUser == [kind |-> "none", pc |-> "idle", n |-> 0]

NoBreakerUse ==
    [state |-> "Closed", failures |-> 0, op |-> [g \in Users |-> IdleUser],
     tick |-> "idle", ops |-> 0]

\* ------------------------------------------------------------------ state
VARIABLES
    plugins,      \* Manager.plugins: name -> instance id (0: no entry)
    pluginPaths,  \* Manager.pluginPaths: name -> path (<<>>: no entry)
    breakers,     \* Manager.breakers: name -> breaker id (0: no entry)
    inst,         \* the PluginInstance objects, by the load that made them
    cb,           \* the CircuitBreaker objects, by the load that made them
    ld,           \* the LoadPluginWithConfig invocations
    call,         \* the goroutines in Manager.Call
    ncalls,       \* Manager.Call invocations started so far
    inits,        \* Bureau.Init invocations per artifact
    frees,        \* Bureau.Free invocations per artifact
    enabled,      \* PluginMetrics.enabled
    metrics,      \* PluginMetrics.plugins: name -> function -> MethodMetrics
    okcalls,      \* per name and function, the Calls that returned a result
                  \* with metrics enabled since the last ResetMetrics (for
                  \* the statements only)
    hist,         \* history of each breaker (for the statements only)
    mgr,          \* Manager.ctx, the watcher goroutine and the Close in progress
    rec,          \* the goroutines in PluginMetrics.RecordMetric
    samples,      \* the RecordMetric invocations so far (for the statements
                  \* only)
    snap,         \* the goroutine in PluginMetrics.GetPluginMetrics
    cfg,          \* the Config, the option maps its configurations point
                  \* to, and the configurations obtained from it
    vcmp,         \* two version strings and what isHigherVersion returned
                  \* for them, in both directions
    bk            \* one CircuitBreaker, its atomics one at a time, and the
                  \* goroutines in its operations

vars == <<plugins, pluginPaths, breakers, inst, cb, ld, call, ncalls,
          inits, frees, enabled, metrics, okcalls, hist, mgr,
          rec, samples, snap, cfg, vcmp, bk>>

NoPath == <<>>
NoVersion == <<>>

NoInstance == [made |-> FALSE, plugin |-> NoPath, state |-> "Active",
               version |-> NoVersion]

NoBreaker == [made |-> FALSE, state |-> "Closed", failures |-> 0,
              since |-> 0, timer |-> 0, loop |-> "none", maxFailures |-> 0]

\* cache: the paths in the cache of the Loader this invocation made; plug:
\* the Plugin object Loader.Load returned, named by the invocation whose
\* Loader made it (0: none); opens: its plugin.Open calls
IdleLoad == [pc |-> "idle", path |-> NoPath, old |-> 0, res |-> "none",
             cache |-> {}, plug |-> 0, opens |-> 0]

\* a goroutine outside Call keeps the result of its last Call in res
IdleCall == [pc |-> "idle", name |-> "p", fn |-> "f", inst |-> 0, brk |-> 0,
             err |-> "none", res |-> "none", invoked |-> 0]

\* streak: the failed Calls answered through the breaker since it was made,
\*   -1 once a Call through it succeeded;
\* trips: how often it went Open;
\* expired: since it last went Open, more than TimeoutDuration passed after
\*   its last failure while it was Open;
\* ticked: since it last went Open, its reset timer fired while it was Open;
\* found: a Call whose function the plugin has was recorded on it
NoHist == [streak |-> 0, trips |-> 0, expired |-> FALSE, ticked |-> FALSE,
           found |-> FALSE]

\* NewCircuitBreaker: Closed, no failure yet (lastFailure is the zero time, so
\* more than any timeout ago), the reset timer armed, the reset loop started
NewCircuitBreaker ==
    [made |-> TRUE, state |-> "Closed", failures |-> 0,
     since |-> TimeoutDuration + 1, timer |-> ResetInterval,
     loop |-> "running", maxFailures |-> MaxFailures]

NewInstance(path) ==
    [made |-> TRUE, plugin |-> path, state |-> "Active",
     version |-> BureauVersion(path)]

\* the Manager's own state after NewManager: the context live, the watcher
\* goroutine started when AllowHotReload is set, no Close under way
\* (visited: the names Close's Range over m.plugins has handled; errs: the
\* names in Close's errs slice; res: what Close returned; list: the goroutine
\* in ListPlugins; begun: the number of Manager.Call invocations begun before
\* Close was invoked, and deleted: the names Close has deleted from
\* m.plugins, in order, two history fields; closes: the Close invocations
\* begun; cbdone: the breakers whose done channel is closed)
IdleList == [pc |-> "idle", keys |-> {}, out |-> {}, from |-> 0, upto |-> 0]

\* what the watcher's channels deliver: fsnotify events, by operation and by
\* the extension of the file name (ev: the last one received, events: how
\* many events and errors were received, logged: how many Error lines the
\* watcher goroutine has logged)
EventOps == {"Create", "Write", "Remove"}
EventExts == {".so", ".txt"}
NoEvent == [op |-> "none", ext |-> "none"]

NewManagerState(allowHotReload) ==
    [ctx |-> "live",
     watcher |-> IF allowHotReload THEN "select" ELSE "none",
     wload |-> 0,
     close |-> "idle", cur |-> "none", visited |-> {}, errs |-> {},
     res |-> "none", list |-> IdleList, begun |-> 0, deleted |-> <<>>,
     ev |-> NoEvent, events |-> 0, logged |-> 0,
     closes |-> 0, cbdone |-> {}]

\* a goroutine outside RecordMetric; inside, d is the duration it records and
\* cur the value its compare-and-swap loop loaded last
IdleRecord == [pc |-> "idle", d |-> 0, cur |-> 0]

\* begun: per duration, the RecordMetric invocations that found the collector
\* enabled; refused: the number of those that found it disabled
NoSamples == [begun |-> [d \in 1 .. MaxDuration |-> 0], refused |-> 0]

\* the goroutine outside GetPluginMetrics keeps what its last call returned:
\* the error in res, the copied MethodMetrics in got
NoCopy == [count |-> 0, total |-> 0, min |-> 0, max |-> 0]
IdleSnapshot == [pc |-> "idle", got |-> NoCopy, res |-> "none"]

\* nobody is in RecordMetric or GetPluginMetrics
NoRecording ==
    /\ rec = [r \in Recorders |-> IdleRecord]
    /\ samples = NoSamples
    /\ snap = IdleSnapshot

\* ----------------------------------------------------------------- Config
\* A PluginSpecificConfig is a record of its fields; Options holds the
\* address of a Go map (maps are reference values), and cfg.maps is the
\* memory of those maps, each a function from its keys to its values.
ZeroBreakerConfig ==
    [Enabled |-> FALSE, MaxFailures |-> 0, ResetInterval |-> 0,
     TimeoutDuration |-> 0]

DefaultCircuitBreakerConfig ==
    [Enabled |-> TRUE, MaxFailures |-> 5, ResetInterval |-> 60,
     TimeoutDuration |-> 5]

\* DefaultPluginSpecificConfig(), its Options map at address 1
DefaultPluginSpecificConfig ==
    [InitArgs |-> <<>>, CircuitBreaker |-> DefaultCircuitBreakerConfig,
     MaxConcurrentCalls |-> 100, PluginTimeout |-> 30, Options |-> 1]

\* the option maps a default configuration may hold
DefaultOptions == { <<>>, [k \in {"k"} |-> "d"] }

\* the overrides of a name explored: each field zero or set, the breaker
\* also set but not enabled; their Options map is at address a
BreakerOverrides ==
    { ZeroBreakerConfig,
      [Enabled |-> FALSE, MaxFailures |-> 3, ResetInterval |-> 10,
       TimeoutDuration |-> 1],
      [Enabled |-> TRUE, MaxFailures |-> 3, ResetInterval |-> 10,
       TimeoutDuration |-> 1] }
Overrides(a) ==
    [InitArgs : {<<>>, <<"x">>}, CircuitBreaker : BreakerOverrides,
     MaxConcurrentCalls : {0, 7}, PluginTimeout : {0, 9}, Options : {a}]
OverrideOptions == { <<>>, [k \in {"k"} |-> "o"], [k \in {"j"} |-> "o"] }

NoConfig == [InitArgs |-> <<>>, CircuitBreaker |-> ZeroBreakerConfig,
             MaxConcurrentCalls |-> 0, PluginTimeout |-> 0, Options |-> 0]

\* a Config with the default d, the overrides o (by name) and the option
\* maps m (by address); nothing obtained from it yet
NewConfig(d, o, m) ==
    [Default |-> d, PluginConfigs |-> o, maps |-> m, was |-> m,
     got |-> [n \in Names |-> NoConfig], used |-> [n \in Names |-> NoConfig]]

\* DefaultConfig(): no overrides, no options
DefaultConfig == NewConfig(DefaultPluginSpecificConfig, <<>>, << <<>> >>)

\* lines 87-114: mergeConfig on the memory maps; merged is the struct it
\* returns and maps the memory after the call
mergeConfig(defaultConfig, specificConfig, maps) ==
    LET into == defaultConfig.Options
        from == maps[specificConfig.Options]
    IN  [merged |->
           [InitArgs |-> IF Len(specificConfig.InitArgs) > 0
                         THEN specificConfig.InitArgs
                         ELSE defaultConfig.InitArgs,
            CircuitBreaker |-> IF specificConfig.CircuitBreaker.Enabled
                               THEN specificConfig.CircuitBreaker
                               ELSE defaultConfig.CircuitBreaker,
            MaxConcurrentCalls |-> IF specificConfig.MaxConcurrentCalls > 0
                                   THEN specificConfig.MaxConcurrentCalls
                                   ELSE defaultConfig.MaxConcurrentCalls,
            PluginTimeout |-> IF specificConfig.PluginTimeout > 0
                              THEN specificConfig.PluginTimeout
                              ELSE defaultConfig.PluginTimeout,
            Options |-> into],
         maps |->
           [maps EXCEPT ![into] =
              [k \in DOMAIN maps[into] \cup DOMAIN from |->
                 IF k \in DOMAIN from THEN from[k] ELSE maps[into][k]]]]

\* lines 79-84: Config.GetPluginConfig(name), once per name
GetPluginConfig(name) ==
    /\ cfg.got[name] = NoConfig
    /\ cfg' = IF name \in DOMAIN cfg.PluginConfigs
              THEN LET r == mergeConfig(cfg.Default, cfg.PluginConfigs[name],
                                        cfg.maps)
                   IN  [cfg EXCEPT !.maps = r.maps, !.got[name] = r.merged]
              ELSE [cfg EXCEPT !.got[name] = cfg.Default]
    /\ UNCHANGED <<plugins, pluginPaths, breakers, inst, cb, ld, call, ncalls,
                   inits, frees, enabled, metrics, okcalls, hist, mgr,
                   rec, samples, snap,
                   vcmp, bk>>

\* part_003 lines 318-329 and 336-342, 124-127: the configuration
\* handleNewPlugin and loadPluginsFromDir hand to LoadPluginWithConfig for a
\* plugin of this name, nil standing for the default
ConfigForLoad(name) ==
    /\ cfg.used[name] = NoConfig
    /\ cfg' = IF name \in DOMAIN cfg.PluginConfigs
              THEN [cfg EXCEPT !.used[name] = cfg.PluginConfigs[name]]
              ELSE [cfg EXCEPT !.used[name] = cfg.Default]
    /\ UNCHANGED <<plugins, pluginPaths, breakers, inst, cb, ld, call, ncalls,
                   inits, frees, enabled, metrics, okcalls, hist, mgr,
                   rec, samples, snap,
                   vcmp, bk>>

\* a Manager with nothing loaded
EmptyRegistry(enableMetrics) ==
    /\ enabled = enableMetrics
    /\ metrics = <<>>
    /\ okcalls = <<>>
    /\ plugins = [n \in Names |-> 0]
    /\ pluginPaths = [n \in Names |-> NoPath]
    /\ breakers = [n \in Names |-> 0]
    /\ inst = [l \in Loaders |-> NoInstance]
    /\ cb = [l \in Loaders |-> NoBreaker]
    /\ ld = [l \in Loaders |-> IdleLoad]
    /\ call = [c \in Callers |-> IdleCall]
    /\ ncalls = 0
    /\ inits = [p \in Artifacts |-> 0]
    /\ frees = [p \in Artifacts |-> 0]
    /\ hist = [l \in Loaders |-> NoHist]
    /\ mgr = NewManagerState(FALSE)
    /\ NoRecording

\* NewManager(config) with an empty plugin directory
InitEmpty(enableMetrics) ==
    /\ EmptyRegistry(enableMetrics)
    /\ cfg = DefaultConfig
    /\ vcmp = NoComparison
    /\ bk = NoBreakerUse

\* a Config whose default has some options, with an override for "p" and
\* with or without one for "q" (whose options, at address 3, set j)
InitConfig ==
    /\ EmptyRegistry(FALSE)
    /\ \E dopt \in DefaultOptions, popt \in OverrideOptions,
          p \in Overrides(2), q \in BOOLEAN :
          LET qo == [NoConfig EXCEPT !.MaxConcurrentCalls = 7, !.Options = 3]
          IN  cfg = NewConfig(DefaultPluginSpecificConfig,
                              IF q THEN [n \in {"p", "q"} |->
                                           IF n = "p" THEN p ELSE qo]
                              ELSE [n \in {"p"} |-> p],
                              <<dopt, popt, [k \in {"j"} |-> "o"]>>)
    /\ vcmp = NoComparison
    /\ bk = NoBreakerUse

\* NewManager(config) with a plugin directory that holds v1/p.so and
\* v1/q.so: loadPluginsFromDir's loads 1 and 2 installed both
NewManagerTwo ==
    LET dir == <<<<"v1", "p", ".so">>, OtherPath>>
        of(n) == CHOOSE l \in 1 .. 2 : getPluginNameFromPath(dir[l]) = n
    IN  /\ enabled = FALSE
        /\ metrics = <<>>
        /\ okcalls = <<>>
        /\ plugins = [n \in Names |-> of(n)]
        /\ pluginPaths = [n \in Names |-> dir[of(n)]]
        /\ breakers = [n \in Names |-> of(n)]
        /\ inst = [l \in Loaders |-> IF l <= 2 THEN NewInstance(dir[l]) ELSE NoInstance]
        /\ cb = [l \in Loaders |-> IF l <= 2 THEN NewCircuitBreaker ELSE NoBreaker]
        /\ ld = [l \in Loaders |->
                   IF l <= 2 THEN [IdleLoad EXCEPT !.pc = "done", !.path = dir[l],
                                                   !.res = "ok",
                                                   !.cache = {dir[l]},
                                                   !.plug = l, !.opens = 1]
                   ELSE IdleLoad]
        /\ call = [c \in Callers |-> IdleCall]
        /\ ncalls = 0
        /\ inits = [p \in Artifacts |-> IF p \in {dir[1], dir[2]} THEN 1 ELSE 0]
        /\ frees = [p \in Artifacts |-> 0]
        /\ hist = [l \in Loaders |-> NoHist]
        /\ mgr = NewManagerState(FALSE)
        /\ NoRecording
        /\ cfg = DefaultConfig
        /\ vcmp = NoComparison
        /\ bk = NoBreakerUse

\* NewManager(config) with a plugin directory that holds v1/p.so: load 1 was
\* loadPluginsFromDir's and installed the plugin with its breaker; with
\* AllowHotReload the watcher goroutine has been started
NewManager(enableMetrics, allowHotReload) ==
    LET path == <<"v1", "p", ".so">>
        name == getPluginNameFromPath(path)
    IN  /\ enabled = enableMetrics
        /\ metrics = <<>>
        /\ okcalls = <<>>
        /\ plugins = [n \in Names |-> IF n = name THEN 1 ELSE 0]
        /\ pluginPaths = [n \in Names |-> IF n = name THEN path ELSE NoPath]
        /\ breakers = [n \in Names |-> IF n = name THEN 1 ELSE 0]
        /\ inst = [l \in Loaders |-> IF l = 1 THEN NewInstance(path) ELSE NoInstance]
        /\ cb = [l \in Loaders |-> IF l = 1 THEN NewCircuitBreaker ELSE NoBreaker]
        /\ ld = [l \in Loaders |->
                   IF l = 1 THEN [IdleLoad EXCEPT !.pc = "done", !.path = path,
                                                  !.res = "ok",
                                                  !.cache = {path},
                                                  !.plug = l, !.opens = 1]
                   ELSE IdleLoad]
        /\ call = [c \in Callers |-> IdleCall]
        /\ ncalls = 0
        /\ inits = [p \in Artifacts |-> IF p = path THEN 1 ELSE 0]
        /\ frees = [p \in Artifacts |-> 0]
        /\ hist = [l \in Loaders |-> NoHist]
        /\ mgr = NewManagerState(allowHotReload)
        /\ NoRecording
        /\ cfg = DefaultConfig
        /\ vcmp = NoComparison
        /\ bk = NoBreakerUse

InitLoaded(enableMetrics) == NewManager(enableMetrics, FALSE)

Init == InitLoaded(FALSE)

\* ------------------------------------------------- LoadPluginWithConfig
\* lines 121-134 and Loader.Load: NewLoader makes a Loader whose cache is
\* empty; Load returns what the cache has for the path, else plugin.Open is
\* called (it opens the artifact, fails, or is not done within
\* PluginTimeout), validateAndCreatePlugin wraps the artifact's Bureau in a
\* new Plugin and the cache stores it. The artifact is one of arts.
LoaderLoadFrom(l, arts) ==
    /\ ld[l].pc = "idle" /\ ld[l].res = "none"
    /\ \E path \in arts, open \in {"opened", "failed", "timeout"} :
          LET loader == {}
          IN  ld' = [ld EXCEPT ![l] =
                       IF path \in loader
                       THEN [@ EXCEPT !.pc = "check", !.path = path,
                                      !.cache = loader,
                                      !.plug = CHOOSE k \in Loaders :
                                                   ld[k].path = path /\ ld[k].plug = k]
                       ELSE IF open = "opened" /\ validateAndCreatePlugin(path) = "nil"
                       THEN [@ EXCEPT !.pc = "check", !.path = path,
                                      !.cache = loader \cup {path},
                                      !.plug = l, !.opens = @ + 1]
                       ELSE [@ EXCEPT !.pc = "done", !.path = path,
                                      !.res = "error", !.cache = loader,
                                      !.opens = @ + 1]]
    /\ UNCHANGED <<plugins, pluginPaths, breakers, inst, cb, call, ncalls,
                   inits, frees, enabled, metrics, okcalls, hist, mgr,
                   rec, samples, snap, cfg, vcmp, bk>>

\* the artifact is a plugin of this runtime
LoaderLoad(l) == LoaderLoadFrom(l, Paths)

\* lines 137-140: m.plugins.Load and the version comparison
LoaderCheck(l) ==
    /\ ld[l].pc = "check"
    /\ LET name == getPluginNameFromPath(ld[l].path)
           old  == plugins[name]
           cmp  == isHigherVersion(BureauVersion(ld[l].path), inst[old].version)
       IN  ld' = [ld EXCEPT ![l] =
                    IF old = 0 THEN [@ EXCEPT !.pc = "init"]
                    ELSE IF cmp = "panic" THEN [@ EXCEPT !.pc = "done", !.res = "panic"]
                    ELSE IF cmp = "false" THEN [@ EXCEPT !.pc = "discard", !.old = old]
                    ELSE [@ EXCEPT !.pc = "deprecate", !.old = old]]
    /\ UNCHANGED <<plugins, pluginPaths, breakers, inst, cb, call, ncalls,
                   inits, frees, enabled, metrics, okcalls, hist, mgr,
                   rec, samples, snap, cfg, vcmp, bk>>

\* a discard that returns without plugin.Free()
LoaderDiscardKept(l) ==
    /\ ld[l].pc = "discard"
    /\ ld' = [ld EXCEPT ![l] = [@ EXCEPT !.pc = "done", !.res = "ok"]]
    /\ UNCHANGED <<plugins, pluginPaths, breakers, inst, cb, call, ncalls,
                   inits, frees, enabled, metrics, okcalls, hist, mgr,
                   rec, samples, snap, cfg, vcmp, bk>>

\* lines 141-142: the new module is not newer: plugin.Free(), return nil
LoaderDiscard(l) ==
    /\ ld[l].pc = "discard"
    /\ frees' = [frees EXCEPT ![ld[l].path] = @ + 1]
    /\ ld' = [ld EXCEPT ![l] = [@ EXCEPT !.pc = "done", !.res = "ok"]]
    /\ UNCHANGED <<plugins, pluginPaths, breakers, inst, cb, call, ncalls,
                   inits, enabled, metrics, okcalls, hist, mgr,
                   rec, samples, snap, cfg, vcmp, bk>>

\* an upgrade that leaves the state of the old instance alone
LoaderDeprecateSkipped(l) ==
    /\ ld[l].pc = "deprecate"
    /\ ld' = [ld EXCEPT ![l].pc = "init"]
    /\ UNCHANGED <<plugins, pluginPaths, breakers, inst, cb, call, ncalls,
                   inits, frees, enabled, metrics, okcalls, hist, mgr,
                   rec, samples, snap, cfg, vcmp, bk>>

\* line 145: oldInstance.state = StateDeprecated
LoaderDeprecate(l) ==
    /\ ld[l].pc = "deprecate"
    /\ inst' = [inst EXCEPT ![ld[l].old].state = "Deprecated"]
    /\ ld' = [ld EXCEPT ![l].pc = "init"]
    /\ UNCHANGED <<plugins, pluginPaths, breakers, cb, call, ncalls,
                   inits, frees, enabled, metrics, okcalls, hist, mgr,
                   rec, samples, snap, cfg, vcmp, bk>>

\* lines 149-161: plugin.Init; on failure plugin.Free and return the error;
\* on success NewCircuitBreaker and the new PluginInstance
LoaderInit(l) ==
    /\ ld[l].pc = "init"
    /\ inits' = [inits EXCEPT ![ld[l].path] = @ + 1]
    /\ \E initOk \in BOOLEAN :
          IF initOk
          THEN /\ cb' = [cb EXCEPT ![l] = NewCircuitBreaker]
               /\ inst' = [inst EXCEPT ![l] = NewInstance(ld[l].path)]
               /\ ld' = [ld EXCEPT ![l].pc = "storePlugin"]
               /\ UNCHANGED frees
          ELSE /\ frees' = [frees EXCEPT ![ld[l].path] = @ + 1]
               /\ ld' = [ld EXCEPT ![l] = [@ EXCEPT !.pc = "done", !.res = "error"]]
               /\ UNCHANGED <<cb, inst>>
    /\ UNCHANGED <<plugins, pluginPaths, breakers, call, ncalls, enabled,
                   metrics, okcalls, hist, mgr,
                   rec, samples, snap, cfg, vcmp, bk>>

\* line 163: m.plugins.Store(pluginName, instance)
LoaderStorePlugin(l) ==
    /\ ld[l].pc = "storePlugin"
    /\ plugins' = [plugins EXCEPT ![getPluginNameFromPath(ld[l].path)] = l]
    /\ ld' = [ld EXCEPT ![l].pc = "storePath"]
    /\ UNCHANGED <<pluginPaths, breakers, inst, cb, call, ncalls,
                   inits, frees, enabled, metrics, okcalls, hist, mgr,
                   rec, samples, snap, cfg, vcmp, bk>>

\* line 164: m.pluginPaths.Store(pluginName, path)
LoaderStorePath(l) ==
    /\ ld[l].pc = "storePath"
    /\ pluginPaths' = [pluginPaths EXCEPT ![getPluginNameFromPath(ld[l].path)] = ld[l].path]
    /\ ld' = [ld EXCEPT ![l].pc = "storeBreaker"]
    /\ UNCHANGED <<plugins, breakers, inst, cb, call, ncalls,
                   inits, frees, enabled, metrics, okcalls, hist, mgr,
                   rec, samples, snap, cfg, vcmp, bk>>

\* a load that leaves the breaker entry of a name that has one
LoaderStoreBreakerKeeps(l) ==
    /\ ld[l].pc = "storeBreaker"
    /\ breakers' = [breakers EXCEPT ![getPluginNameFromPath(ld[l].path)] =
                                        IF @ = 0 THEN l ELSE @]
    /\ ld' = [ld EXCEPT ![l] = [@ EXCEPT !.pc = "done", !.res = "ok"]]
    /\ UNCHANGED <<plugins, pluginPaths, inst, cb, call, ncalls,
                   inits, frees, enabled, metrics, okcalls, hist, mgr,
                   rec, samples, snap, cfg, vcmp, bk>>

\* lines 165-167: m.breakers.Store(pluginName, breaker); return nil
LoaderStoreBreaker(l) ==
    /\ ld[l].pc = "storeBreaker"
    /\ breakers' = [breakers EXCEPT ![getPluginNameFromPath(ld[l].path)] = l]
    /\ ld' = [ld EXCEPT ![l] = [@ EXCEPT !.pc = "done", !.res = "ok"]]
    /\ UNCHANGED <<plugins, pluginPaths, inst, cb, call, ncalls,
                   inits, frees, enabled, metrics, okcalls, hist, mgr,
                   rec, samples, snap, cfg, vcmp, bk>>

LoadPluginWithConfig(l) ==
    \/ LoaderLoad(l)
    \/ LoaderCheck(l)
    \/ LoaderDiscard(l)
    \/ LoaderDeprecate(l)
    \/ LoaderInit(l)
    \/ LoaderStorePlugin(l)
    \/ LoaderStorePath(l)
    \/ LoaderStoreBreaker(l)

\* ------------------------------------------------------- CircuitBreaker
\* an Allow that lets a trial through as soon as TimeoutDuration is reached
AllowAtTimeout(b) ==
    IF b.state = "Closed" THEN [ok |-> TRUE, cb |-> b]
    ELSE IF b.state = "HalfOpen" THEN [ok |-> TRUE, cb |-> b]
    ELSE IF b.since >= TimeoutDuration
         THEN [ok |-> TRUE, cb |-> [b EXCEPT !.state = "HalfOpen", !.failures = 0]]
         ELSE [ok |-> FALSE, cb |-> b]

\* Allow on breaker object b: the answer and the breaker afterwards.
\* time.Since(lastFailure) > TimeoutDuration is b.since > TimeoutDuration.
Allow(b) ==
    IF ~b.made THEN [ok |-> TRUE, cb |-> b]
    ELSE IF b.state = "Closed" THEN [ok |-> TRUE, cb |-> b]
    ELSE IF b.state = "HalfOpen" THEN [ok |-> TRUE, cb |-> b]
    ELSE IF b.since > TimeoutDuration
         THEN [ok |-> TRUE, cb |-> [b EXCEPT !.state = "HalfOpen", !.failures = 0]]
         ELSE [ok |-> FALSE, cb |-> b]

\* a RecordSuccess that clears the failure counter in every state
RecordSuccessResets(b) ==
    IF b.state = "HalfOpen"
    THEN [b EXCEPT !.state = "Closed", !.failures = 0]
    ELSE [b EXCEPT !.failures = 0]

\* a RecordSuccess that takes one failure off the counter of a Closed breaker
RecordSuccessForgives(b) ==
    IF b.made /\ b.state = "HalfOpen"
    THEN [b EXCEPT !.state = "Closed", !.failures = 0]
    ELSE IF b.made /\ b.state = "Closed" /\ b.failures > 0
    THEN [b EXCEPT !.failures = @ - 1]
    ELSE b

RecordSuccess(b) ==
    IF b.made /\ b.state = "HalfOpen"
    THEN [b EXCEPT !.state = "Closed", !.failures = 0]
    ELSE b

\* a RecordFailure that opens the breaker two failures late
RecordFailureLate(b) ==
    LET failures == b.failures + 1
    IN  [b EXCEPT !.since = 0,
                  !.failures = failures,
                  !.state = IF failures >= b.maxFailures + 2 /\ b.state = "Closed"
                            THEN "Open" ELSE b.state]

\* lastFailure := now; failures += 1; at MaxFailures CAS(Closed -> Open)
RecordFailure(b) ==
    LET failures == b.failures + 1
    IN  IF ~b.made THEN b ELSE
        [b EXCEPT !.since = 0,
                  !.failures = failures,
                  !.state = IF failures >= b.maxFailures /\ b.state = "Closed"
                            THEN "Open" ELSE b.state]

\* a tick that leaves the failure counter alone
ResetTickKeepsCount(b) ==
    [b EXCEPT !.state = IF b.state = "Open" THEN "HalfOpen" ELSE b.state,
              !.timer = ResetInterval]

\* one pass of the reset loop on a fired timer
ResetTick(b) ==
    [b EXCEPT !.state = IF b.state = "Open" THEN "HalfOpen" ELSE b.state,
              !.failures = IF b.state = "Open" THEN 0 ELSE b.failures,
              !.timer = ResetInterval]

\* the reset loop of breaker l takes the case <-cb.resetTimer.C
TimerFire(l) ==
    /\ cb[l].made /\ cb[l].loop = "running" /\ cb[l].timer = 0
    /\ cb' = [cb EXCEPT ![l] = ResetTick(cb[l])]
    /\ hist' = [hist EXCEPT ![l].ticked = @ \/ cb[l].state = "Open"]
    /\ UNCHANGED <<plugins, pluginPaths, breakers, inst, ld, call, ncalls,
                   inits, frees, enabled, metrics, okcalls, mgr,
                   rec, samples, snap, cfg, vcmp, bk>>

\* one unit of time passes: every armed timer runs down, every last failure
\* is one unit older (kept up to TimeoutDuration + 1, beyond which no
\* comparison tells the difference)
Elapse(b) ==
    IF b.made
    THEN [b EXCEPT !.since = IF @ > TimeoutDuration THEN @ ELSE @ + 1,
                   !.timer = IF @ > 0 THEN @ - 1 ELSE 0]
    ELSE b

ClockAdvance ==
    /\ \E l \in Loaders : Elapse(cb[l]) # cb[l]
    /\ cb' = [l \in Loaders |-> Elapse(cb[l])]
    /\ hist' = [l \in Loaders |->
                 [hist[l] EXCEPT !.expired =
                     @ \/ (cb[l].state = "Open" /\ Elapse(cb[l]).since > TimeoutDuration)]]
    /\ UNCHANGED <<plugins, pluginPaths, breakers, inst, ld, call, ncalls,
                   inits, frees, enabled, metrics, okcalls, mgr,
                   rec, samples, snap, cfg, vcmp, bk>>

\* the history of breaker h after one more Call answered through it
Answered(h, failed) ==
    [h EXCEPT !.streak = IF ~failed THEN 0 - 1
                         ELSE IF @ < 0 THEN @ ELSE @ + 1]

\* the history of a breaker after a Call that ended with err was recorded
Missed(h, err) ==
    [h EXCEPT !.found = @ \/ err # "funcnotfound"]

\* the history of a breaker after an operation took it from before to after
Reopened(h, before, after) ==
    IF before.state # "Open" /\ after.state = "Open"
    THEN [h EXCEPT !.expired = FALSE, !.ticked = FALSE, !.trips = @ + 1]
    ELSE h

\* ---------------------------- CircuitBreaker, one atomic at a time
\* bk.state and bk.failures are the atomics cb.state and cb.failures; user g
\* is in operation bk.op[g].kind at bk.op[g].pc, n holding the value its
\* failures.Add returned; bk.tick is where the reset loop is; bk.ops counts
\* the operations begun. The clock is free: whether time.Since(lastFailure)
\* exceeds TimeoutDuration is any of the two.
BkFrame ==
    UNCHANGED <<plugins, pluginPaths, breakers, inst, cb, ld, call, ncalls,
                inits, frees, enabled, metrics, okcalls, hist, mgr,
                rec, samples, snap, cfg, vcmp>>

\* lines 71-90: Allow loads the state; Closed and HalfOpen return true; Open
\* returns false unless the timeout has passed, and then goes on to the CAS
BkAllowLoad(g) ==
    /\ bk.op[g].pc = "idle" /\ bk.ops < MaxOps
    /\ \E expired \in BOOLEAN :
          bk' = [bk EXCEPT !.ops = @ + 1,
                           !.op[g] = IF bk.state = "Open" /\ expired
                                     THEN [kind |-> "Allow", pc |-> "cas", n |-> 0]
                                     ELSE IdleUser]
    /\ BkFrame

\* line 83: CompareAndSwap(Open, HalfOpen), and failures.Store(0) after it
\* only when it swapped
BkAllowCAS(g) ==
    /\ bk.op[g].kind = "Allow" /\ bk.op[g].pc = "cas"
    /\ bk' = IF bk.state = "Open"
             THEN [bk EXCEPT !.state = "HalfOpen", !.op[g].pc = "store"]
             ELSE [bk EXCEPT !.op[g] = IdleUser]
    /\ BkFrame

\* line 84: failures.Store(0)
BkAllowStore(g) ==
    /\ bk.op[g].kind = "Allow" /\ bk.op[g].pc = "store"
    /\ bk' = [bk EXCEPT !.failures = 0, !.op[g] = IdleUser]
    /\ BkFrame

\* lines 94-100: RecordSuccess loads the state and goes on only for HalfOpen
BkSuccessLoad(g) ==
    /\ bk.op[g].pc = "idle" /\ bk.ops < MaxOps
    /\ bk' = [bk EXCEPT !.ops = @ + 1,
                        !.op[g] = IF bk.state = "HalfOpen"
                                  THEN [kind |-> "RecordSuccess", pc |-> "cas",
                                        n |-> 0]
                                  ELSE IdleUser]
    /\ BkFrame

\* line 101: CompareAndSwap(HalfOpen, Closed), its result not looked at
BkSuccessCAS(g) ==
    /\ bk.op[g].kind = "RecordSuccess" /\ bk.op[g].pc = "cas"
    /\ bk' = [bk EXCEPT !.state = IF @ = "HalfOpen" THEN "Closed" ELSE @,
                        !.op[g].pc = "store"]
    /\ BkFrame

\* a RecordSuccess that returns after the swap
BkSuccessStoreSkipped(g) ==
    /\ bk.op[g].kind = "RecordSuccess" /\ bk.op[g].pc = "store"
    /\ bk' = [bk EXCEPT !.op[g] = IdleUser]
    /\ BkFrame

\* line 102: failures.Store(0)
BkSuccessStore(g) ==
    /\ bk.op[g].kind = "RecordSuccess" /\ bk.op[g].pc = "store"
    /\ bk' = [bk EXCEPT !.failures = 0, !.op[g] = IdleUser]
    /\ BkFrame

\* lines 111-114: RecordFailure stores lastFailure and adds one to failures;
\* below MaxFailures it returns
BkFailureAdd(g) ==
    /\ bk.op[g].pc = "idle" /\ bk.ops < MaxOps
    /\ LET failures == bk.failures + 1
       IN  bk' = [bk EXCEPT !.ops = @ + 1,
                            !.failures = failures,
                            !.op[g] = IF failures >= MaxFailures
                                      THEN [kind |-> "RecordFailure", pc |-> "cas",
                                            n |-> failures]
                                      ELSE IdleUser]
    /\ BkFrame

\* line 115: CompareAndSwap(Closed, Open)
BkFailureCAS(g) ==
    /\ bk.op[g].kind = "RecordFailure" /\ bk.op[g].pc = "cas"
    /\ bk' = [bk EXCEPT !.state = IF @ = "Closed" THEN "Open" ELSE @,
                        !.op[g] = IdleUser]
    /\ BkFrame

\* lines 58-59: the reset loop takes a tick and loads the state; unless it is
\* Open it only rearms the timer
BkTickLoad ==
    /\ bk.tick = "idle" /\ bk.ops < MaxOps
    /\ bk' = [bk EXCEPT !.ops = @ + 1,
                        !.tick = IF bk.state = "Open" THEN "cas" ELSE "idle"]
    /\ BkFrame

\* line 60: CompareAndSwap(Open, HalfOpen), its result not looked at
BkTickCAS ==
    /\ bk.tick = "cas"
    /\ bk' = [bk EXCEPT !.state = IF @ = "Open" THEN "HalfOpen" ELSE @,
                        !.tick = "store"]
    /\ BkFrame

\* lines 61-63: failures.Store(0) and the timer rearmed
BkTickStore ==
    /\ bk.tick = "store"
    /\ bk' = [bk EXCEPT !.failures = 0, !.tick = "idle"]
    /\ BkFrame

BreakerSteps ==
    \/ \E g \in Users :
          \/ BkAllowLoad(g)
          \/ BkAllowCAS(g)
          \/ BkAllowStore(g)
          \/ BkSuccessLoad(g)
          \/ BkSuccessCAS(g)
          \/ BkSuccessStore(g)
          \/ BkFailureAdd(g)
          \/ BkFailureCAS(g)
    \/ BkTickLoad
    \/ BkTickCAS
    \/ BkTickStore

\* -------------------------------------------------------- PluginMetrics
Durations == 1 .. MaxDuration

ZeroMetrics == [count |-> 0, total |-> 0, min |-> 0, max |-> 0]

\* a RecordMetric that stores a fresh MethodMetrics instead of loading the
\* one already there
RecordMetricStore(m, name, fn, d) ==
    LET pm  == IF name \in DOMAIN m THEN m[name] ELSE <<>>
        new == [count |-> 1, total |-> d, min |-> d, max |-> d]
        pm2 == [f \in DOMAIN pm \cup {fn} |-> IF f = fn THEN new ELSE pm[f]]
    IN  [n \in DOMAIN m \cup {name} |-> IF n = name THEN pm2 ELSE m[n]]

\* RecordMetric(pluginName, funcName, duration) on the collector's map m
RecordMetric(m, name, fn, d) ==
    LET pm  == IF name \in DOMAIN m THEN m[name] ELSE <<>>
        old == IF fn \in DOMAIN pm THEN pm[fn] ELSE ZeroMetrics
        new == [count |-> old.count + 1,
                total |-> old.total + d,
                min   |-> IF old.min = 0 \/ d < old.min THEN d ELSE old.min,
                max   |-> IF d > old.max THEN d ELSE old.max]
        pm2 == [f \in DOMAIN pm \cup {fn} |-> IF f = fn THEN new ELSE pm[f]]
    IN  [n \in DOMAIN m \cup {name} |-> IF n = name THEN pm2 ELSE m[n]]

\* GetPluginMetrics(pluginName) on the collector's map m: the snapshot of the
\* plugin's methods, or the error when the plugin has no entry
GetPluginMetrics(m, name) ==
    IF name \in DOMAIN m THEN m[name] ELSE "nometrics"

\* one more counted Call for the pair k
Counted(t, k) ==
    [x \in DOMAIN t \cup {k} |-> IF x = k THEN (IF k \in DOMAIN t THEN t[k] ELSE 0) + 1
                                 ELSE t[x]]

\* Manager.ResetMetrics: every plugin's entry is deleted
ResetMetrics ==
    /\ metrics # <<>>
    /\ metrics' = <<>>
    /\ okcalls' = <<>>
    /\ UNCHANGED <<plugins, pluginPaths, breakers, inst, cb, ld, call, ncalls,
                   inits, frees, enabled, hist, mgr,
                   rec, samples, snap, cfg, vcmp, bk>>

\* Manager.EnableMetrics / Manager.DisableMetrics
SetEnabled ==
    /\ enabled' = ~enabled
    /\ UNCHANGED <<plugins, pluginPaths, breakers, inst, cb, ld, call, ncalls,
                   inits, frees, metrics, okcalls, hist, mgr,
                   rec, samples, snap, cfg, vcmp, bk>>

\* ------------------------------------- RecordMetric, one atomic at a time
\* the (plugin, function) pair the recording goroutines record for
MetricName == "p"
MetricFunc == "f"

HasBucket(m) == MetricName \in DOMAIN m /\ MetricFunc \in DOMAIN m[MetricName]

\* the MethodMetrics of the pair
Bucket(m) == m[MetricName][MetricFunc]

\* the collector's map with the MethodMetrics of the pair set to b
WithBucket(m, b) ==
    LET pm  == IF MetricName \in DOMAIN m THEN m[MetricName] ELSE <<>>
        pm2 == [f \in DOMAIN pm \cup {MetricFunc} |->
                   IF f = MetricFunc THEN b ELSE pm[f]]
    IN  [n \in DOMAIN m \cup {MetricName} |-> IF n = MetricName THEN pm2 ELSE m[n]]

Begun == LET RECURSIVE Sum(_)
             Sum(d) == IF d = 0 THEN 0 ELSE samples.begun[d] + Sum(d - 1)
         IN  Sum(MaxDuration)

\* a RecordMetric that goes on whether or not the collector is enabled
RecCheckAlways(r) ==
    /\ rec[r].pc = "idle"
    /\ Begun + samples.refused < MaxSamples
    /\ \E d \in Durations :
          /\ rec' = [rec EXCEPT ![r] = [pc |-> "store", d |-> d, cur |-> 0]]
          /\ samples' = [samples EXCEPT !.begun[d] = @ + 1]
    /\ UNCHANGED <<plugins, pluginPaths, breakers, inst, cb, ld, call, ncalls,
                   inits, frees, enabled, metrics, okcalls, hist, mgr, snap, cfg, vcmp, bk>>

\* lines 584-586: RecordMetric(MetricName, MetricFunc, d) returns at once
\* when the collector is disabled
RecCheck(r) ==
    /\ rec[r].pc = "idle"
    /\ Begun + samples.refused < MaxSamples
    /\ \E d \in Durations :
          IF enabled
          THEN /\ rec' = [rec EXCEPT ![r] = [pc |-> "store", d |-> d, cur |-> 0]]
               /\ samples' = [samples EXCEPT !.begun[d] = @ + 1]
          ELSE /\ rec' = rec
               /\ samples' = [samples EXCEPT !.refused = @ + 1]
    /\ UNCHANGED <<plugins, pluginPaths, breakers, inst, cb, ld, call, ncalls,
                   inits, frees, enabled, metrics, okcalls, hist, mgr, snap, cfg, vcmp, bk>>

\* lines 589-594: the two LoadOrStore calls: the plugin's entry and the
\* function's MethodMetrics are created, zeroed, unless they are there
RecStore(r) ==
    /\ rec[r].pc = "store"
    /\ metrics' = IF HasBucket(metrics) THEN metrics
                  ELSE WithBucket(metrics, ZeroMetrics)
    /\ rec' = [rec EXCEPT ![r].pc = "count"]
    /\ UNCHANGED <<plugins, pluginPaths, breakers, inst, cb, ld, call, ncalls,
                   inits, frees, enabled, okcalls, hist, mgr, samples, snap, cfg, vcmp, bk>>

\* line 599: metrics.Count.Add(1)
RecCount(r) ==
    /\ rec[r].pc = "count"
    /\ metrics' = WithBucket(metrics, [Bucket(metrics) EXCEPT !.count = @ + 1])
    /\ rec' = [rec EXCEPT ![r].pc = "total"]
    /\ UNCHANGED <<plugins, pluginPaths, breakers, inst, cb, ld, call, ncalls,
                   inits, frees, enabled, okcalls, hist, mgr, samples, snap, cfg, vcmp, bk>>

\* line 600: metrics.TotalTime.Add(durationNanos)
RecTotal(r) ==
    /\ rec[r].pc = "total"
    /\ metrics' = WithBucket(metrics, [Bucket(metrics) EXCEPT !.total = @ + rec[r].d])
    /\ rec' = [rec EXCEPT ![r].pc = "minLoad"]
    /\ UNCHANGED <<plugins, pluginPaths, breakers, inst, cb, ld, call, ncalls,
                   inits, frees, enabled, okcalls, hist, mgr, samples, snap, cfg, vcmp, bk>>

\* lines 604-605, 609-610: current := MinTime.Load(); leave the loop unless
\* current is unset or larger than the duration
RecMinLoad(r) ==
    /\ rec[r].pc = "minLoad"
    /\ LET current == Bucket(metrics).min
       IN  rec' = [rec EXCEPT ![r] =
                     IF current = 0 \/ rec[r].d < current
                     THEN [@ EXCEPT !.pc = "minCAS", !.cur = current]
                     ELSE [@ EXCEPT !.pc = "maxLoad", !.cur = 0]]
    /\ UNCHANGED <<plugins, pluginPaths, breakers, inst, cb, ld, call, ncalls,
                   inits, frees, enabled, metrics, okcalls, hist, mgr,
                   samples, snap, cfg, vcmp, bk>>

\* a minimum written with a plain Store in place of the compare-and-swap
RecMinStore(r) ==
    /\ rec[r].pc = "minCAS"
    /\ metrics' = WithBucket(metrics, [Bucket(metrics) EXCEPT !.min = rec[r].d])
    /\ rec' = [rec EXCEPT ![r] = [@ EXCEPT !.pc = "maxLoad", !.cur = 0]]
    /\ UNCHANGED <<plugins, pluginPaths, breakers, inst, cb, ld, call, ncalls,
                   inits, frees, enabled, okcalls, hist, mgr, samples, snap, cfg, vcmp, bk>>

\* lines 606-608: MinTime.CompareAndSwap(current, durationNanos); on failure
\* the loop starts over
RecMinCAS(r) ==
    /\ rec[r].pc = "minCAS"
    /\ IF Bucket(metrics).min = rec[r].cur
       THEN /\ metrics' = WithBucket(metrics, [Bucket(metrics) EXCEPT !.min = rec[r].d])
            /\ rec' = [rec EXCEPT ![r] = [@ EXCEPT !.pc = "maxLoad", !.cur = 0]]
       ELSE /\ metrics' = metrics
            /\ rec' = [rec EXCEPT ![r] = [@ EXCEPT !.pc = "minLoad", !.cur = 0]]
    /\ UNCHANGED <<plugins, pluginPaths, breakers, inst, cb, ld, call, ncalls,
                   inits, frees, enabled, okcalls, hist, mgr, samples, snap, cfg, vcmp, bk>>

\* lines 616-617, 621-622: current := MaxTime.Load(); return unless the
\* duration is larger
RecMaxLoad(r) ==
    /\ rec[r].pc = "maxLoad"
    /\ LET current == Bucket(metrics).max
       IN  rec' = [rec EXCEPT ![r] =
                     IF rec[r].d > current
                     THEN [@ EXCEPT !.pc = "maxCAS", !.cur = current]
                     ELSE IdleRecord]
    /\ UNCHANGED <<plugins, pluginPaths, breakers, inst, cb, ld, call, ncalls,
                   inits, frees, enabled, metrics, okcalls, hist, mgr,
                   samples, snap, cfg, vcmp, bk>>

\* lines 618-620: MaxTime.CompareAndSwap(current, durationNanos); on failure
\* the loop starts over
RecMaxCAS(r) ==
    /\ rec[r].pc = "maxCAS"
    /\ IF Bucket(metrics).max = rec[r].cur
       THEN /\ metrics' = WithBucket(metrics, [Bucket(metrics) EXCEPT !.max = rec[r].d])
            /\ rec' = [rec EXCEPT ![r] = IdleRecord]
       ELSE /\ metrics' = metrics
            /\ rec' = [rec EXCEPT ![r] = [@ EXCEPT !.pc = "maxLoad", !.cur = 0]]
    /\ UNCHANGED <<plugins, pluginPaths, breakers, inst, cb, ld, call, ncalls,
                   inits, frees, enabled, okcalls, hist, mgr, samples, snap, cfg, vcmp, bk>>

RecordMetricSteps(r) ==
    \/ RecCheck(r)
    \/ RecStore(r)
    \/ RecCount(r)
    \/ RecTotal(r)
    \/ RecMinLoad(r)
    \/ RecMinCAS(r)
    \/ RecMaxLoad(r)
    \/ RecMaxCAS(r)

\* --------------------------------- GetPluginMetrics, one atomic at a time
\* lines 629-631: the error when the collector is disabled
SnapCheck ==
    /\ snap.pc = "idle"
    /\ snap' = IF enabled THEN [IdleSnapshot EXCEPT !.pc = "load"]
               ELSE [IdleSnapshot EXCEPT !.res = "disabled"]
    /\ UNCHANGED <<plugins, pluginPaths, breakers, inst, cb, ld, call, ncalls,
                   inits, frees, enabled, metrics, okcalls, hist, mgr,
                   rec, samples, cfg, vcmp, bk>>

\* lines 633-636, 646: m.plugins.Load(pluginName), the error when there is no
\* entry; the Range reaches the function's MethodMetrics, if any
SnapLoad ==
    /\ snap.pc = "load"
    /\ snap' = IF MetricName \notin DOMAIN metrics
               THEN [snap EXCEPT !.pc = "idle", !.res = "nometrics"]
               ELSE IF ~HasBucket(metrics)
               THEN [snap EXCEPT !.pc = "idle", !.res = "ok"]
               ELSE [snap EXCEPT !.pc = "count"]
    /\ UNCHANGED <<plugins, pluginPaths, breakers, inst, cb, ld, call, ncalls,
                   inits, frees, enabled, metrics, okcalls, hist, mgr,
                   rec, samples, cfg, vcmp, bk>>

\* line 652: methodSnapshot.Count.Store(metrics.Count.Load())
SnapCount ==
    /\ snap.pc = "count"
    /\ snap' = [snap EXCEPT !.pc = "total", !.got.count = Bucket(metrics).count]
    /\ UNCHANGED <<plugins, pluginPaths, breakers, inst, cb, ld, call, ncalls,
                   inits, frees, enabled, metrics, okcalls, hist, mgr,
                   rec, samples, cfg, vcmp, bk>>

\* line 653: methodSnapshot.TotalTime.Store(metrics.TotalTime.Load())
SnapTotal ==
    /\ snap.pc = "total"
    /\ snap' = [snap EXCEPT !.pc = "min", !.got.total = Bucket(metrics).total]
    /\ UNCHANGED <<plugins, pluginPaths, breakers, inst, cb, ld, call, ncalls,
                   inits, frees, enabled, metrics, okcalls, hist, mgr,
                   rec, samples, cfg, vcmp, bk>>

\* line 654: methodSnapshot.MinTime.Store(metrics.MinTime.Load())
SnapMin ==
    /\ snap.pc = "min"
    /\ snap' = [snap EXCEPT !.pc = "max", !.got.min = Bucket(metrics).min]
    /\ UNCHANGED <<plugins, pluginPaths, breakers, inst, cb, ld, call, ncalls,
                   inits, frees, enabled, metrics, okcalls, hist, mgr,
                   rec, samples, cfg, vcmp, bk>>

\* lines 655-661: methodSnapshot.MaxTime.Store(metrics.MaxTime.Load()); the
\* snapshot is returned
SnapMax ==
    /\ snap.pc = "max"
    /\ snap' = [snap EXCEPT !.pc = "idle", !.res = "ok",
                            !.got.max = Bucket(metrics).max]
    /\ UNCHANGED <<plugins, pluginPaths, breakers, inst, cb, ld, call, ncalls,
                   inits, frees, enabled, metrics, okcalls, hist, mgr,
                   rec, samples, cfg, vcmp, bk>>

GetPluginMetricsSteps ==
    \/ SnapCheck
    \/ SnapLoad
    \/ SnapCount
    \/ SnapTotal
    \/ SnapMin
    \/ SnapMax

\* ----------------------------------------------------------- Manager.Call
\* a lookup that may hand out any instance already constructed
CallLookupAnyInstance(c) ==
    /\ call[c].pc = "idle" /\ ncalls < MaxCalls
    /\ ncalls' = ncalls + 1
    /\ \E name \in CallNames, fn \in CallFuncs, i \in Loaders :
          /\ inst[i].made
          /\ call' = [call EXCEPT ![c] =
                        IF plugins[name] = 0
                        THEN [IdleCall EXCEPT !.res = "notfound"]
                        ELSE [IdleCall EXCEPT !.name = name, !.fn = fn,
                                              !.pc = "breaker", !.inst = i]]
    /\ UNCHANGED <<plugins, pluginPaths, breakers, inst, cb, ld,
                   inits, frees, enabled, metrics, okcalls, hist, mgr,
                   rec, samples, snap, cfg, vcmp, bk>>

\* lines 173-177: m.plugins.Load(pluginName)
CallLookup(c) ==
    /\ call[c].pc = "idle" /\ ncalls < MaxCalls
    /\ ncalls' = ncalls + 1
    /\ \E name \in CallNames, fn \in CallFuncs :
          call' = [call EXCEPT ![c] =
                     IF plugins[name] = 0
                     THEN [IdleCall EXCEPT !.res = "notfound"]
                     ELSE [IdleCall EXCEPT !.name = name, !.fn = fn,
                                           !.pc = "breaker",
                                           !.inst = plugins[name]]]
    /\ UNCHANGED <<plugins, pluginPaths, breakers, inst, cb, ld,
                   inits, frees, enabled, metrics, okcalls, hist, mgr,
                   rec, samples, snap, cfg, vcmp, bk>>

\* lines 180-181: m.breakers.Load(pluginName) and the type assertion, which
\* panics on the nil interface of a missing entry
CallBreaker(c) ==
    /\ call[c].pc = "breaker"
    /\ call' = [call EXCEPT ![c] =
                  IF breakers[call[c].name] = 0
                  THEN [IdleCall EXCEPT !.res = "panic"]
                  ELSE [@ EXCEPT !.pc = "allow", !.brk = breakers[call[c].name]]]
    /\ UNCHANGED <<plugins, pluginPaths, breakers, inst, cb, ld, ncalls,
                   inits, frees, enabled, metrics, okcalls, hist, mgr,
                   rec, samples, snap, cfg, vcmp, bk>>

\* lines 183-185: breaker.Allow()
CallAllow(c) ==
    /\ call[c].pc = "allow"
    /\ LET b == call[c].brk
           r == Allow(cb[b])
       IN  /\ cb' = [cb EXCEPT ![b] = r.cb]
           /\ call' = [call EXCEPT ![c] =
                         IF r.ok THEN [@ EXCEPT !.pc = "invoke"]
                         ELSE [IdleCall EXCEPT !.res = "circuitopen"]]
           /\ hist' = [hist EXCEPT ![b] = IF r.ok THEN @ ELSE Answered(@, TRUE)]
    /\ UNCHANGED <<plugins, pluginPaths, breakers, inst, ld, ncalls,
                   inits, frees, enabled, metrics, okcalls, mgr,
                   rec, samples, snap, cfg, vcmp, bk>>

\* lines 187-189: instance.Call(ctx, funcName, args...): Plugin.Call looks the
\* function up and runs it; the module decides whether it fails
CallInvoke(c) ==
    /\ call[c].pc = "invoke"
    /\ IF call[c].fn \in BureauFuncs(inst[call[c].inst].plugin)
       THEN \E err \in {"none", "failed"} :
              call' = [call EXCEPT ![c] =
                         [@ EXCEPT !.pc = "record", !.err = err,
                                   !.invoked = @ + 1]]
       ELSE call' = [call EXCEPT ![c] =
                       [@ EXCEPT !.pc = "record", !.err = "funcnotfound"]]
    /\ UNCHANGED <<plugins, pluginPaths, breakers, inst, cb, ld, ncalls,
                   inits, frees, enabled, metrics, okcalls, hist, mgr,
                   rec, samples, snap, cfg, vcmp, bk>>

\* a Call that runs a failed function a second time before recording
CallRecordRetry(c) ==
    /\ call[c].pc = "record"
    /\ LET b == call[c].brk
           failed == call[c].err # "none"
           retry == failed /\ call[c].invoked = 1
           after == IF retry THEN cb[b]
                    ELSE IF failed THEN RecordFailure(cb[b])
                    ELSE RecordSuccess(cb[b])
       IN  /\ cb' = [cb EXCEPT ![b] = after]
           /\ call' = [call EXCEPT ![c] =
                         IF retry THEN [@ EXCEPT !.pc = "invoke"]
                         ELSE IF failed
                         THEN [IdleCall EXCEPT !.res = call[c].err]
                         ELSE [@ EXCEPT !.pc = "metrics"]]
           /\ hist' = [hist EXCEPT ![b] =
                         IF retry THEN @
                         ELSE Missed(Reopened(Answered(@, failed), cb[b], after),
                                     call[c].err)]
    /\ UNCHANGED <<plugins, pluginPaths, breakers, inst, ld, ncalls,
                   inits, frees, enabled, metrics, okcalls, mgr,
                   rec, samples, snap, cfg, vcmp, bk>>

\* a Call that keeps a function the plugin does not have from the breaker
CallRecordFound(c) ==
    /\ call[c].pc = "record"
    /\ LET b == call[c].brk
           failed == call[c].err # "none"
           after == IF call[c].err = "funcnotfound" THEN cb[b]
                    ELSE IF failed THEN RecordFailure(cb[b])
                    ELSE RecordSuccess(cb[b])
       IN  /\ cb' = [cb EXCEPT ![b] = after]
           /\ call' = [call EXCEPT ![c] =
                         IF failed
                         THEN [IdleCall EXCEPT !.res = call[c].err]
                         ELSE [@ EXCEPT !.pc = "metrics"]]
           /\ hist' = [hist EXCEPT ![b] =
                         Missed(Reopened(Answered(@, failed), cb[b], after),
                                call[c].err)]
    /\ UNCHANGED <<plugins, pluginPaths, breakers, inst, ld, ncalls,
                   inits, frees, enabled, metrics, okcalls, mgr,
                   rec, samples, snap, cfg, vcmp, bk>>

\* lines 191-200: RecordFailure and return the error, or RecordSuccess
CallRecord(c) ==
    /\ call[c].pc = "record"
    /\ LET b == call[c].brk
           failed == call[c].err # "none"
           after == IF failed THEN RecordFailure(cb[b]) ELSE RecordSuccess(cb[b])
       IN  /\ cb' = [cb EXCEPT ![b] = after]
           /\ call' = [call EXCEPT ![c] =
                         IF failed
                         THEN [IdleCall EXCEPT !.res = call[c].err]
                         ELSE [@ EXCEPT !.pc = "metrics"]]
           /\ hist' = [hist EXCEPT ![b] =
                         Missed(Reopened(Answered(@, failed), cb[b], after),
                                call[c].err)]
    /\ UNCHANGED <<plugins, pluginPaths, breakers, inst, ld, ncalls,
                   inits, frees, enabled, metrics, okcalls, mgr,
                   rec, samples, snap, cfg, vcmp, bk>>

\* lines 202-206: record the timing when metrics are enabled, return the result
CallMetrics(c) ==
    /\ call[c].pc = "metrics"
    /\ \E d \in Durations :
          metrics' = IF enabled
                     THEN RecordMetric(metrics, call[c].name, call[c].fn, d)
                     ELSE metrics
    /\ okcalls' = IF enabled
                  THEN Counted(okcalls, <<call[c].name, call[c].fn>>)
                  ELSE okcalls
    /\ call' = [call EXCEPT ![c] = [IdleCall EXCEPT !.res = "ok"]]
    /\ UNCHANGED <<plugins, pluginPaths, breakers, inst, cb, ld, ncalls,
                   inits, frees, enabled, hist, mgr,
                   rec, samples, snap, cfg, vcmp, bk>>

Call(c) ==
    \/ CallLookup(c)
    \/ CallBreaker(c)
    \/ CallAllow(c)
    \/ CallInvoke(c)
    \/ CallRecord(c)
    \/ CallMetrics(c)

\* a status query that reports Allow's answer without negating it
GetBreakerStatusPlain(name) ==
    IF breakers[name] = 0
    THEN [res |-> "panic", cb |-> NoBreaker]
    ELSE LET r == Allow(cb[breakers[name]])
         IN  [res |-> IF r.ok THEN "open" ELSE "notopen", cb |-> r.cb]

\* ------------------------------------------------------ GetBreakerStatus
\* lines 407-414: m.breakers.Load, the type assertion (a panic when the name
\* has no entry), !breaker.Allow(): the answer and the breaker afterwards
GetBreakerStatus(name) ==
    IF breakers[name] = 0
    THEN [res |-> "panic", cb |-> NoBreaker]
    ELSE LET r == Allow(cb[breakers[name]])
         IN  [res |-> IF r.ok THEN "notopen" ELSE "open", cb |-> r.cb]

QueryStatus ==
    /\ \E name \in CallNames :
          /\ breakers[name] # 0
          /\ cb' = [cb EXCEPT ![breakers[name]] = GetBreakerStatus(name).cb]
    /\ UNCHANGED <<plugins, pluginPaths, breakers, inst, ld, call, ncalls,
                   inits, frees, enabled, metrics, okcalls, hist, mgr,
                   rec, samples, snap, cfg, vcmp, bk>>

\* ------------------------------------------------------------ ListPlugins
\* lines 221-234: one PluginInfo per entry of m.plugins
ListPlugins ==
    { [name |-> n, version |-> inst[plugins[n]].version,
       state |-> inst[plugins[n]].state] : n \in {x \in Names : plugins[x] # 0} }

\* ---------------------------------------------------- background goroutines
\* resetLoop of breaker l takes the case <-ctx.Done() and returns
LoopExit(l) ==
    /\ cb[l].made /\ cb[l].loop = "running"
    /\ mgr.ctx = "cancelled"
    /\ cb' = [cb EXCEPT ![l].loop = "done"]
    /\ UNCHANGED <<plugins, pluginPaths, breakers, inst, ld, call, ncalls,
                   inits, frees, enabled, metrics, okcalls, hist, mgr,
                   rec, samples, snap, cfg, vcmp, bk>>

\* a watcher that hands every event of a .so file to handleNewPlugin
WatcherEventAnyOp(l) ==
    /\ mgr.watcher = "select" /\ mgr.events < MaxEvents
    /\ ld[l].pc = "idle" /\ ld[l].res = "none"
    /\ \E op \in EventOps, ext \in EventExts :
          mgr' = IF ext = ".so"
                 THEN [mgr EXCEPT !.watcher = "loading", !.wload = l,
                                  !.ev = [op |-> op, ext |-> ext],
                                  !.events = @ + 1]
                 ELSE [mgr EXCEPT !.ev = [op |-> op, ext |-> ext],
                                  !.events = @ + 1]
    /\ UNCHANGED <<plugins, pluginPaths, breakers, inst, cb, ld, call, ncalls,
                   inits, frees, enabled, metrics, okcalls, hist,
                   rec, samples, snap, cfg, vcmp, bk>>

\* lines 300-306: watchPlugins receives an event; for the Create event of a
\* .so file it enters handleNewPlugin, whose LoadPluginWithConfig is
\* invocation l; any other event is dropped
WatcherEvent(l) ==
    /\ mgr.watcher = "select" /\ mgr.events < MaxEvents
    /\ ld[l].pc = "idle" /\ ld[l].res = "none"
    /\ \E op \in EventOps, ext \in EventExts :
          mgr' = IF op = "Create" /\ ext = ".so"
                 THEN [mgr EXCEPT !.watcher = "loading", !.wload = l,
                                  !.ev = [op |-> op, ext |-> ext],
                                  !.events = @ + 1]
                 ELSE [mgr EXCEPT !.ev = [op |-> op, ext |-> ext],
                                  !.events = @ + 1]
    /\ UNCHANGED <<plugins, pluginPaths, breakers, inst, cb, ld, call, ncalls,
                   inits, frees, enabled, metrics, okcalls, hist,
                   rec, samples, snap, cfg, vcmp, bk>>

\* lines 307-311: watchPlugins receives a watcher error, logs it and goes
\* back to the select
WatcherError ==
    /\ mgr.watcher = "select" /\ mgr.events < MaxEvents
    /\ mgr' = [mgr EXCEPT !.events = @ + 1, !.logged = @ + 1]
    /\ UNCHANGED <<plugins, pluginPaths, breakers, inst, cb, ld, call, ncalls,
                   inits, frees, enabled, metrics, okcalls, hist,
                   rec, samples, snap, cfg, vcmp, bk>>
    /\ UNCHANGED <<plugins, pluginPaths, breakers, inst, cb, ld, call, ncalls,
                   inits, frees, enabled, metrics, okcalls, hist,
                   rec, samples, snap, cfg, vcmp, bk>>

\* the steps of the watcher's LoadPluginWithConfig
WatcherLoad ==
    /\ mgr.watcher = "loading"
    /\ \E l \in Loaders : l = mgr.wload /\ LoadPluginWithConfig(l)

\* a watcher loop that ends when its load has failed
WatcherReturnStops ==
    /\ mgr.watcher = "loading"
    /\ ld[mgr.wload].pc = "done"
    /\ mgr' = IF ld[mgr.wload].res = "error"
              THEN [mgr EXCEPT !.watcher = "done", !.wload = 0, !.logged = @ + 1]
              ELSE [mgr EXCEPT !.watcher = "select", !.wload = 0]
    /\ UNCHANGED <<plugins, pluginPaths, breakers, inst, cb, ld, call, ncalls,
                   inits, frees, enabled, metrics, okcalls, hist,
                   rec, samples, snap, cfg, vcmp, bk>>

\* lines 321-327: handleNewPlugin returns, a failed load having been logged:
\* back to the select
WatcherReturn ==
    /\ mgr.watcher = "loading"
    /\ ld[mgr.wload].pc = "done"
    /\ mgr' = [mgr EXCEPT !.watcher = "select", !.wload = 0,
                           !.logged = IF ld[mgr.wload].res = "error"
                                      THEN @ + 1 ELSE @]
    /\ UNCHANGED <<plugins, pluginPaths, breakers, inst, cb, ld, call, ncalls,
                   inits, frees, enabled, metrics, okcalls, hist,
                   rec, samples, snap, cfg, vcmp, bk>>

\* watchPlugins takes the case <-m.ctx.Done() and returns nil
WatcherExit ==
    /\ mgr.watcher = "select"
    /\ mgr.ctx = "cancelled"
    /\ mgr' = [mgr EXCEPT !.watcher = "done"]
    /\ UNCHANGED <<plugins, pluginPaths, breakers, inst, cb, ld, call, ncalls,
                   inits, frees, enabled, metrics, okcalls, hist,
                   rec, samples, snap, cfg, vcmp, bk>>

\* ---------------------------------------------------------- Manager.Close
\* line 239: m.cancel()
CloseCancel ==
    /\ mgr.close = "idle"
    /\ mgr' = [mgr EXCEPT !.ctx = "cancelled", !.close = "wait",
                           !.begun = ncalls, !.closes = @ + 1]
    /\ UNCHANGED <<plugins, pluginPaths, breakers, inst, cb, ld, call, ncalls,
                   inits, frees, enabled, metrics, okcalls, hist,
                   rec, samples, snap, cfg, vcmp, bk>>

\* lines 242-251: m.eg.Wait() returns once the watcher goroutine, the only
\* member of the group, has returned; then m.watcher.Close()
CloseWait ==
    /\ mgr.close = "wait"
    /\ mgr.watcher \in {"none", "done"}
    /\ mgr' = [mgr EXCEPT !.close = "breakers"]
    /\ UNCHANGED <<plugins, pluginPaths, breakers, inst, cb, ld, call, ncalls,
                   inits, frees, enabled, metrics, okcalls, hist,
                   rec, samples, snap, cfg, vcmp, bk>>

\* a breaker.Close() that closes cb.done without the select: closing a
\* closed channel panics
CloseBreakersUnguarded ==
    /\ mgr.close = "breakers"
    /\ LET found == {breakers[n] : n \in Names} \ {0}
       IN  mgr' = IF found \cap mgr.cbdone # {}
                  THEN [mgr EXCEPT !.close = "done", !.res = "panic"]
                  ELSE [mgr EXCEPT !.close = "sleep", !.cbdone = @ \cup found]
    /\ UNCHANGED <<plugins, pluginPaths, breakers, inst, cb, ld, call, ncalls,
                   inits, frees, enabled, metrics, okcalls, hist,
                   rec, samples, snap, cfg, vcmp, bk>>

\* lines 254-262: breaker.Close() on every entry of m.breakers: cancel() of a
\* context that m.cancel() has cancelled already, and close(cb.done) unless
\* the select finds cb.done closed; nothing waits for a resetLoop
CloseBreakers ==
    /\ mgr.close = "breakers"
    /\ LET found == {breakers[n] : n \in Names} \ {0}
       IN  mgr' = [mgr EXCEPT !.close = "sleep", !.cbdone = @ \cup found]
    /\ UNCHANGED <<plugins, pluginPaths, breakers, inst, cb, ld, call, ncalls,
                   inits, frees, enabled, metrics, okcalls, hist,
                   rec, samples, snap, cfg, vcmp, bk>>

\* a Close that sleeps until no Call is in flight
CloseSleepDrains ==
    /\ mgr.close = "sleep"
    /\ \A c \in Callers : call[c].pc = "idle"
    /\ mgr' = [mgr EXCEPT !.close = "range"]
    /\ UNCHANGED <<plugins, pluginPaths, breakers, inst, cb, ld, call, ncalls,
                   inits, frees, enabled, metrics, okcalls, hist,
                   rec, samples, snap, cfg, vcmp, bk>>

\* line 265: time.Sleep(100 * time.Millisecond) is over
CloseSleep ==
    /\ mgr.close = "sleep"
    /\ mgr' = [mgr EXCEPT !.close = "range"]
    /\ UNCHANGED <<plugins, pluginPaths, breakers, inst, cb, ld, call, ncalls,
                   inits, frees, enabled, metrics, okcalls, hist,
                   rec, samples, snap, cfg, vcmp, bk>>

\* a Range over m.plugins that a failed Free ends at once
CloseFreeHalts ==
    /\ mgr.close = "range"
    /\ \E n \in Names, freed \in BOOLEAN :
          /\ plugins[n] # 0 /\ n \notin mgr.visited
          /\ frees' = [frees EXCEPT ![inst[plugins[n]].plugin] = @ + 1]
          /\ mgr' = IF freed
                    THEN [mgr EXCEPT !.close = "delete", !.cur = n]
                    ELSE [mgr EXCEPT !.close = "done", !.res = "error",
                                     !.errs = @ \cup {n}]
    /\ UNCHANGED <<plugins, pluginPaths, breakers, inst, cb, ld, call, ncalls,
                   inits, enabled, metrics, okcalls, hist,
                   rec, samples, snap, cfg, vcmp, bk>>

\* lines 269-274: the Range over m.plugins reaches an entry: instance.Free(),
\* whose error, if any, is appended to errs
CloseFree ==
    /\ mgr.close = "range"
    /\ \E n \in Names, freed \in BOOLEAN :
          /\ plugins[n] # 0 /\ n \notin mgr.visited
          /\ frees' = [frees EXCEPT ![inst[plugins[n]].plugin] = @ + 1]
          /\ mgr' = [mgr EXCEPT !.close = "delete", !.cur = n,
                                !.errs = IF freed THEN @ ELSE @ \cup {n}]
    /\ UNCHANGED <<plugins, pluginPaths, breakers, inst, cb, ld, call, ncalls,
                   inits, enabled, metrics, okcalls, hist,
                   rec, samples, snap, cfg, vcmp, bk>>

\* line 275: m.plugins.Delete(key)
CloseDelete ==
    /\ mgr.close = "delete"
    /\ plugins' = [plugins EXCEPT ![mgr.cur] = 0]
    /\ mgr' = [mgr EXCEPT !.close = "range", !.cur = "none",
                           !.visited = @ \cup {mgr.cur},
                           !.deleted = Append(@, mgr.cur)]
    /\ UNCHANGED <<pluginPaths, breakers, inst, cb, ld, call, ncalls,
                   inits, frees, enabled, metrics, okcalls, hist,
                   rec, samples, snap, cfg, vcmp, bk>>

\* lines 280-283: the Range is over, Close returns
CloseReturn ==
    /\ mgr.close = "range"
    /\ \A n \in Names : plugins[n] = 0 \/ n \in mgr.visited
    /\ mgr' = [mgr EXCEPT !.close = "done",
                           !.res = IF mgr.errs # {} THEN "error" ELSE "nil"]
    /\ UNCHANGED <<plugins, pluginPaths, breakers, inst, cb, ld, call, ncalls,
                   inits, frees, enabled, metrics, okcalls, hist,
                   rec, samples, snap, cfg, vcmp, bk>>

Close ==
    \/ CloseCancel
    \/ CloseWait
    \/ CloseBreakers
    \/ CloseSleep
    \/ CloseFree
    \/ CloseDelete
    \/ CloseReturn

\* Close is invoked on a Manager whose Close has returned: line 239,
\* m.cancel() of the cancelled context, and the locals of a new invocation
CloseAgain ==
    /\ mgr.close = "done" /\ mgr.res # "panic"
    /\ mgr.closes < MaxCloses
    /\ mgr' = [mgr EXCEPT !.close = "wait", !.closes = @ + 1,
                           !.cur = "none", !.visited = {}, !.errs = {},
                           !.res = "none"]
    /\ UNCHANGED <<plugins, pluginPaths, breakers, inst, cb, ld, call, ncalls,
                   inits, frees, enabled, metrics, okcalls, hist,
                   rec, samples, snap, cfg, vcmp, bk>>

\* ------------------------------- ListPlugins, one entry of the Range a step
\* line 223: m.plugins.Range begins: sync.Map.Range (Go 1.23) goes through
\* the entries of the read map as it is at this moment (keys), and loads
\* each entry's value when it comes to it (from: the number of deletions so
\* far, a history field)
ListStart ==
    /\ mgr.list.pc = "idle"
    /\ mgr' = [mgr EXCEPT !.list =
                  [IdleList EXCEPT !.pc = "range",
                                   !.keys = { n \in Names : plugins[n] # 0 },
                                   !.from = Len(mgr.deleted)]]
    /\ UNCHANGED <<plugins, pluginPaths, breakers, inst, cb, ld, call, ncalls,
                   inits, frees, enabled, metrics, okcalls, hist,
                   rec, samples, snap, cfg, vcmp, bk>>

\* lines 223-231: the Range comes to the entry of n: a deleted entry is
\* skipped, otherwise the callback appends name, instance.version and
\* instance.state
ListVisit ==
    /\ mgr.list.pc = "range"
    /\ \E n \in mgr.list.keys :
          mgr' = [mgr EXCEPT !.list.keys = @ \ {n},
                             !.list.out =
                                 IF plugins[n] = 0 THEN @
                                 ELSE @ \cup { [name |-> n,
                                                version |-> inst[plugins[n]].version,
                                                state |-> inst[plugins[n]].state] }]
    /\ UNCHANGED <<plugins, pluginPaths, breakers, inst, cb, ld, call, ncalls,
                   inits, frees, enabled, metrics, okcalls, hist,
                   rec, samples, snap, cfg, vcmp, bk>>

\* line 233: the Range is over, the list is returned (upto: the number of
\* deletions so far, a history field)
ListReturn ==
    /\ mgr.list.pc = "range" /\ mgr.list.keys = {}
    /\ mgr' = [mgr EXCEPT !.list.pc = "done", !.list.upto = Len(mgr.deleted)]
    /\ UNCHANGED <<plugins, pluginPaths, breakers, inst, cb, ld, call, ncalls,
                   inits, frees, enabled, metrics, okcalls, hist,
                   rec, samples, snap, cfg, vcmp, bk>>

ListPluginsSteps ==
    \/ ListStart
    \/ ListVisit
    \/ ListReturn

\* --------------------------------------------------------- specifications
\* calls, status queries, the reset loops and the clock on the plugin that
\* NewManager installed
Next ==
    \/ \E c \in Callers : Call(c)
    \/ \E l \in Loaders : TimerFire(l)
    \/ ClockAdvance
    \/ QueryStatus

Spec == Init /\ [][Next]_vars

\* one calling goroutine, status queries, the reset loops and the clock, under
\* the scheduler's guarantees: time passes, and a reset loop whose timer has
\* fired runs; no caller is obliged to call
NextFair ==
    \/ Call(1)
    \/ \E l \in Loaders : TimerFire(l)
    \/ ClockAdvance
    \/ QueryStatus

SpecFair ==
    /\ Init /\ [][NextFair]_vars
    /\ WF_vars(ClockAdvance)
    /\ \A l \in Loaders : WF_vars(TimerFire(l))

\* calls with the metrics collector switched on, reset, and switched off and
\* on again
NextMetrics ==
    \/ \E c \in Callers : Call(c)
    \/ ResetMetrics
    \/ SetEnabled

SpecMetrics == InitLoaded(TRUE) /\ [][NextMetrics]_vars

\* concurrent LoadPluginWithConfig invocations alone
NextLoad == \E l \in Loaders : LoadPluginWithConfig(l)

SpecLoad == InitEmpty(FALSE) /\ [][NextLoad]_vars

\* LoadPluginWithConfig invocations side by side with the Calls of one
\* goroutine, from an empty registry
NextServe ==
    \/ \E l \in Loaders : LoadPluginWithConfig(l)
    \/ Call(1)

SpecServe == InitEmpty(FALSE) /\ [][NextServe]_vars

\* the same registry upgraded by further LoadPluginWithConfig invocations
\* while one goroutine calls
NextUpgrade ==
    \/ \E l \in Loaders : LoadPluginWithConfig(l)
    \/ Call(1)

SpecUpgrade == InitLoaded(FALSE) /\ [][NextUpgrade]_vars

\* Calls of several goroutines racing one LoadPluginWithConfig invocation on a
\* registry that already holds p at 1.0.0
RaceCall(c) == (call[c].pc # "idle" \/ ncalls < RaceCalls) /\ Call(c)

NextRace ==
    \/ LoadPluginWithConfig(2)
    \/ \E c \in Callers : RaceCall(c)

SpecRace == InitLoaded(FALSE) /\ [][NextRace]_vars

\* a Manager with hot reload and no callers: the watcher's loads, the reset
\* loops, the clock and one Close
NextClose ==
    \/ \E l \in Loaders : WatcherEvent(l)
    \/ WatcherError
    \/ WatcherLoad
    \/ WatcherReturn
    \/ WatcherExit
    \/ \E l \in Loaders : TimerFire(l)
    \/ \E l \in Loaders : LoopExit(l)
    \/ ClockAdvance
    \/ Close

SpecClose == NewManager(FALSE, TRUE) /\ [][NextClose]_vars

\* LoadPluginWithConfig on an empty registry, of any artifact plugin.Open
\* may be given
LoadAnyArtifact(l) == LoaderLoadFrom(l, Paths \cup BadPaths)

NextReject ==
    \E l \in Loaders :
        \/ LoadAnyArtifact(l)
        \/ LoaderCheck(l)
        \/ LoaderDiscard(l)
        \/ LoaderDeprecate(l)
        \/ LoaderInit(l)
        \/ LoaderStorePlugin(l)
        \/ LoaderStorePath(l)
        \/ LoaderStoreBreaker(l)

SpecReject == InitEmpty(FALSE) /\ [][NextReject]_vars

\* lines 353-377: isHigherVersion on two version strings, in both directions
CompareVersions ==
    /\ vcmp.fwd = "none"
    /\ vcmp' = [vcmp EXCEPT !.fwd = isHigherVersion(vcmp.new, vcmp.current),
                            !.back = isHigherVersion(vcmp.current, vcmp.new)]
    /\ UNCHANGED <<plugins, pluginPaths, breakers, inst, cb, ld, call, ncalls,
                   inits, frees, enabled, metrics, okcalls, hist, mgr,
                   rec, samples, snap, cfg,
                   bk>>

\* any two version strings
InitVersions ==
    /\ EmptyRegistry(FALSE)
    /\ cfg = DefaultConfig
    /\ \E new \in Versions, current \in Versions :
          vcmp = [NoComparison EXCEPT !.new = new, !.current = current]
    /\ bk = NoBreakerUse

SpecVersions == InitVersions /\ [][CompareVersions]_vars

\* one breaker used by concurrent goroutines and its reset loop
SpecBreaker == InitEmpty(FALSE) /\ [][BreakerSteps]_vars

\* the configurations obtained from a Config, for each name
NextConfig ==
    \/ \E n \in Names : GetPluginConfig(n)
    \/ \E n \in Names : ConfigForLoad(n)

SpecConfig == InitConfig /\ [][NextConfig]_vars

\* the watcher goroutine and one Close, under the scheduler's guarantee that
\* the watcher goroutine, in its loop or in the load it makes, runs on
NextWatch ==
    \/ \E l \in Loaders : WatcherEvent(l)
    \/ WatcherError
    \/ WatcherLoad
    \/ WatcherReturn
    \/ WatcherExit
    \/ Close

\* a step of the watcher goroutine
WatcherStep == WatcherLoad \/ WatcherReturn \/ WatcherExit

SpecWatch ==
    /\ NewManager(FALSE, TRUE) /\ [][NextWatch]_vars
    /\ WF_vars(WatcherStep)

\* a Manager with hot reload whose directory sees no event: the Calls of one
\* goroutine and one Close, under the scheduler's guarantee that the
\* goroutine in Close runs on; no Call is obliged to go on, and the watcher
\* goroutine is not obliged to see the cancellation
NextReturn ==
    \/ Call(1)
    \/ WatcherExit
    \/ Close

SpecReturn ==
    /\ NewManager(FALSE, TRUE) /\ [][NextReturn]_vars
    /\ WF_vars(Close)

\* a Manager with hot reload: the watcher's loads, and Close invoked again
\* after it has returned
NextAgain ==
    \/ \E l \in Loaders : WatcherEvent(l)
    \/ WatcherLoad
    \/ WatcherReturn
    \/ WatcherExit
    \/ Close
    \/ CloseAgain

SpecAgain == NewManager(FALSE, TRUE) /\ [][NextAgain]_vars

\* a Manager without hot reload: Calls and one Close
NextShutdown ==
    \/ \E c \in Callers : Call(c)
    \/ Close

SpecShutdown == InitLoaded(FALSE) /\ [][NextShutdown]_vars

\* Close of a Manager that holds two plugins, with their reset loops and the
\* clock
NextTeardown ==
    \/ Close
    \/ \E l \in Loaders : LoopExit(l)
    \/ \E l \in Loaders : TimerFire(l)
    \/ ClockAdvance

SpecTeardown == NewManagerTwo /\ [][NextTeardown]_vars

\* goroutines recording durations for one (plugin, function) pair on an
\* enabled collector
NextRecord == \E r \in Recorders : RecordMetricSteps(r)

SpecRecord == InitLoaded(TRUE) /\ [][NextRecord]_vars

\* the same with a goroutine taking snapshots and the collector switched off
\* and on
NextSnapshot ==
    \/ \E r \in Recorders : RecordMetricSteps(r)
    \/ GetPluginMetricsSteps
    \/ SetEnabled

SpecSnapshot == InitLoaded(TRUE) /\ [][NextSnapshot]_vars

\* one recording goroutine, one taking snapshots, and the collector switched
\* off and on
NextDisable ==
    \/ RecordMetricSteps(1)
    \/ GetPluginMetricsSteps
    \/ SetEnabled

SpecDisable == InitLoaded(TRUE) /\ [][NextDisable]_vars

\* ListPlugins on a Manager that holds two plugins while Close runs
NextList ==
    \/ ListPluginsSteps
    \/ Close
    \/ \E l \in Loaders : LoopExit(l)

SpecList == NewManagerTwo /\ [][NextList]_vars

\* ------------------------------------------------------------- statements
\* C1: under any interleaving of LoadPluginWithConfig calls the current
\* instance of a name is replaced only by an instance of a strictly higher
\* version, so the current version of a name never decreases.
C1_ReplacedOnlyByHigherVersion ==
    [][\A n \in Names :
          (plugins[n] # 0 /\ plugins'[n] # 0 /\ plugins'[n] # plugins[n])
              => isHigherVersion(inst'[plugins'[n]].version,
                                 inst[plugins[n]].version) = "true"]_vars

\* a Call step of goroutine c that leaves the program point at
Leaves(c, at) == call[c].pc = at /\ call'[c].pc # at

\* C2 (as stated): from a fresh Closed breaker, once MaxFailures + 1 Calls in
\* a row have failed the breaker is Open, and every Call checked afterwards
\* fails with circuit-open without the function being invoked, until
\* TimeoutDuration has passed since the last failure.
C2_OpenUntilTimeout ==
    [][/\ \A l \in Loaders :
            (/\ hist[l].streak = MaxFailures
             /\ hist'[l].streak = MaxFailures + 1
             /\ ~hist'[l].expired)
                => cb'[l].state = "Open"
       /\ \A c \in Callers :
            (/\ Leaves(c, "allow")
             /\ hist[call[c].brk].streak >= MaxFailures + 1
             /\ ~hist[call[c].brk].expired)
                => /\ call'[c] = [IdleCall EXCEPT !.res = "circuitopen"]
                   /\ call[c].invoked = 0]_vars

\* C2 (amended): the same until TimeoutDuration has passed since the last
\* failure or the breaker's reset timer has fired.
C2_OpenUntilTimeoutOrTick ==
    [][/\ \A l \in Loaders :
            (/\ hist[l].streak = MaxFailures
             /\ hist'[l].streak = MaxFailures + 1
             /\ ~hist'[l].expired /\ ~hist'[l].ticked)
                => cb'[l].state = "Open"
       /\ \A c \in Callers :
            (/\ Leaves(c, "allow")
             /\ hist[call[c].brk].streak >= MaxFailures + 1
             /\ ~hist[call[c].brk].expired /\ ~hist[call[c].brk].ticked)
                => /\ call'[c] = [IdleCall EXCEPT !.res = "circuitopen"]
                   /\ call[c].invoked = 0]_vars

\* a Call made after MaxFailures + 1 failed ones was refused by the breaker,
\* which is still Open
C2_Witness ==
    \E c \in Callers, l \in Loaders :
        /\ call[c].res = "circuitopen"
        /\ hist[l].streak >= MaxFailures + 2
        /\ ~hist[l].expired /\ ~hist[l].ticked
        /\ cb[l].state = "Open"

\* C3: every RecordFailure that brings the failure counter to MaxFailures or
\* beyond leaves the breaker Open, whatever state it was in.
C3_FailureAtMaxOpens ==
    [][\A l \in Loaders :
          (cb'[l].failures = cb[l].failures + 1
           /\ cb'[l].failures >= cb'[l].maxFailures)
              => cb'[l].state = "Open"]_vars

\* C4: when the function of a Call fails while the breaker is HalfOpen, the
\* breaker is Open once the failure is recorded.
C4_FailedTrialReopens ==
    [][\A c \in Callers :
          (/\ Leaves(c, "record")
           /\ call[c].err = "failed"
           /\ cb[call[c].brk].state = "HalfOpen")
              => cb'[call[c].brk].state = "Open"]_vars

\* what Allow may answer and do on breaker b: after is the breaker afterwards
AllowContract(b, ok, after) ==
    /\ b.state \in {"Closed", "HalfOpen"} => ok /\ after = b
    /\ b.state = "Open" =>
          /\ ok <=> b.since > TimeoutDuration
          /\ ok => after = [b EXCEPT !.state = "HalfOpen", !.failures = 0]
          /\ ~ok => after = b

\* C5: a breaker through which no Call has been answered is Closed with no
\* failures; Allow, in a Call and in the status query, answers true in Closed
\* and HalfOpen and changes nothing; in Open it answers true exactly when
\* more than TimeoutDuration has passed since the last failure, and then the
\* breaker is HalfOpen with a failure counter of zero; otherwise it answers
\* false and changes nothing.
C5_AllowContract ==
    [][/\ \A l \in Loaders :
            /\ (cb[l].made /\ hist[l].streak = 0)
                  => cb[l].state = "Closed" /\ cb[l].failures = 0
            /\ (cb'[l].made /\ hist'[l].streak = 0)
                  => cb'[l].state = "Closed" /\ cb'[l].failures = 0
       /\ \A c \in Callers :
            Leaves(c, "allow") =>
                /\ AllowContract(cb[call[c].brk],
                                 call'[c].pc = "invoke", cb'[call[c].brk])
                /\ call'[c].pc # "invoke"
                      => call'[c] = [IdleCall EXCEPT !.res = "circuitopen"]
       /\ \A n \in Names :
            breakers[n] # 0 =>
                AllowContract(cb[breakers[n]],
                              GetBreakerStatus(n).res = "notopen",
                              GetBreakerStatus(n).cb)]_vars

\* one Call was refused by an Open breaker, and another was let through an
\* Open breaker whose timeout had passed, which made it HalfOpen
C5_Witness ==
    \E c1 \in Callers, c2 \in Callers :
        /\ call[c1].res = "circuitopen"
        /\ call[c2].pc = "invoke"
        /\ cb[call[c2].brk].state = "HalfOpen"
        /\ cb[call[c2].brk].failures = 0

\* C6: a success recorded on a HalfOpen breaker leaves it Closed with a
\* failure counter of zero; recorded on a Closed or Open breaker it changes
\* neither the state nor the failure counter.
C6_RecordSuccessContract ==
    [][\A c \in Callers :
          (Leaves(c, "record") /\ call[c].err = "none") =>
              LET before == cb[call[c].brk]
                  after  == cb'[call[c].brk]
              IN  IF before.state = "HalfOpen"
                  THEN after.state = "Closed" /\ after.failures = 0
                  ELSE /\ after.state = before.state
                       /\ after.failures = before.failures]_vars

\* a success has just been recorded on a breaker that had gone Open, leaving
\* it Closed with no failures, and the Call has not returned yet
C6_Witness ==
    \E c \in Callers :
        /\ call[c].pc = "metrics"
        /\ hist[call[c].brk].trips >= 1
        /\ cb[call[c].brk].state = "Closed"
        /\ cb[call[c].brk].failures = 0

\* a step in which the reset loop of breaker l handles a fired timer
Ticks(l) == cb[l].timer = 0 /\ cb'[l].timer = ResetInterval

\* C7: a tick of a running reset timer on an Open breaker leaves it HalfOpen
\* with a failure counter of zero, a tick on a Closed or HalfOpen breaker
\* changes neither state nor counter, and a breaker that is Open with its
\* reset loop running is eventually not Open, whether or not anyone calls.
C7_TickReopensEventually ==
    /\ [][\A l \in Loaders :
              Ticks(l) =>
                  IF cb[l].state = "Open"
                  THEN cb'[l].state = "HalfOpen" /\ cb'[l].failures = 0
                  ELSE /\ cb'[l].state = cb[l].state
                       /\ cb'[l].failures = cb[l].failures]_vars
    /\ \A l \in Loaders :
          (cb[l].made /\ cb[l].loop = "running" /\ cb[l].state = "Open")
              ~> (cb[l].state # "Open")

\* the reset timer fired on an Open breaker before TimeoutDuration had passed
\* since its last failure, and the breaker is HalfOpen with no failures
C7_Witness ==
    \E l \in Loaders :
        /\ hist[l].ticked /\ ~hist[l].expired
        /\ cb[l].state = "HalfOpen"
        /\ cb[l].failures = 0
        /\ cb[l].timer = ResetInterval

\* C8: on a breaker that is Open with more than TimeoutDuration passed since
\* its last failure, the Allow of a Call lets the Call through and the status
\* query answers not open, either leaving the breaker HalfOpen; a success
\* recorded on the HalfOpen breaker leaves it Closed with a failure counter
\* of zero, and the status query then answers not open.
C8_RecoversAfterTimeout ==
    [][/\ \A c \in Callers :
            (/\ Leaves(c, "allow")
             /\ cb[call[c].brk].state = "Open"
             /\ cb[call[c].brk].since > TimeoutDuration)
                => /\ call'[c].pc = "invoke"
                   /\ cb'[call[c].brk].state = "HalfOpen"
       /\ \A n \in Names :
            (/\ breakers[n] # 0
             /\ cb[breakers[n]].state = "Open"
             /\ cb[breakers[n]].since > TimeoutDuration)
                => /\ GetBreakerStatus(n).res = "notopen"
                   /\ GetBreakerStatus(n).cb.state = "HalfOpen"
       /\ \A c \in Callers :
            (/\ Leaves(c, "record")
             /\ call[c].err = "none"
             /\ cb[call[c].brk].state = "HalfOpen")
                => /\ cb'[call[c].brk].state = "Closed"
                   /\ cb'[call[c].brk].failures = 0
                   /\ GetBreakerStatus(call[c].name)'.res = "notopen"]_vars

\* a breaker went Open, its timeout passed without a timer tick, a Call was
\* let through and succeeded, and the breaker is Closed with no failures
C8_Witness ==
    \E c \in Callers :
        /\ call[c].pc = "metrics"
        /\ hist[call[c].brk].trips >= 1
        /\ hist[call[c].brk].expired /\ ~hist[call[c].brk].ticked
        /\ cb[call[c].brk].state = "Closed"
        /\ cb[call[c].brk].failures = 0
        /\ GetBreakerStatus(call[c].name).res = "notopen"

\* what one Call that passed the breaker check does after running the
\* function n times: one outcome recorded, the error handed back as it is
OneOutcome(c, n) ==
    /\ call[c].pc \in {"breaker", "allow", "invoke"} => call[c].invoked = 0
    /\ Leaves(c, "invoke") => call'[c].pc = "record"
    /\ Leaves(c, "record") =>
          /\ call[c].invoked = n
          /\ IF call[c].err # "none"
             THEN /\ cb'[call[c].brk].failures = cb[call[c].brk].failures + 1
                  /\ cb'[call[c].brk].since = 0
                  /\ call'[c] = [IdleCall EXCEPT !.res = call[c].err]
             ELSE /\ cb'[call[c].brk].failures <= cb[call[c].brk].failures
                  /\ cb'[call[c].brk].since = cb[call[c].brk].since
                  /\ call'[c].pc = "metrics"
                  /\ call'[c].invoked = n
    /\ Leaves(c, "metrics") =>
          /\ call'[c] = [IdleCall EXCEPT !.res = "ok"]
          /\ cb'[call[c].brk] = cb[call[c].brk]

\* C9 (as stated): every Call that passes the breaker check runs the function
\* exactly once, then records exactly one outcome on the breaker, a failure
\* when the function returned an error and a success otherwise, and a failed
\* Call returns with the function's error without running it again.
C9_InvokedOnceRecordedOnce ==
    [][\A c \in Callers : OneOutcome(c, 1)]_vars

\* C9 (amended): the same for a Call that names a function of the plugin; a
\* Call that names none runs nothing, records one failure and returns
\* function-not-found.
C9_InvokedOnceIfFunctionExists ==
    [][\A c \in Callers :
          IF call[c].pc = "record" /\ call[c].err = "funcnotfound"
          THEN /\ OneOutcome(c, 0)
               /\ call[c].fn \notin BureauFuncs(inst[call[c].inst].plugin)
          ELSE /\ OneOutcome(c, 1)
               /\ call[c].pc \in {"record", "metrics"}
                     => call[c].fn \in BureauFuncs(inst[call[c].inst].plugin)]_vars

\* one Call has run its function once and failed, with the failure about to
\* be recorded, and another has returned the function's error
C9_Witness ==
    \E c1 \in Callers, c2 \in Callers :
        /\ call[c1].pc = "record" /\ call[c1].err = "failed"
        /\ call[c1].invoked = 1
        /\ call[c2].res = "failed"
        /\ cb[call[c1].brk].failures >= 1

\* the count the collector holds for a pair
Count(m, name, fn) ==
    IF name \in DOMAIN m /\ fn \in DOMAIN GetPluginMetrics(m, name)
    THEN GetPluginMetrics(m, name)[fn].count ELSE 0

\* the Calls of a pair that returned successfully with metrics enabled since
\* the last reset
Successes(name, fn) ==
    IF <<name, fn>> \in DOMAIN okcalls THEN okcalls[<<name, fn>>] ELSE 0

Quiescent == \A c \in Callers : call[c].pc = "idle"

C11_NotFoundReturned ==
    [][\A c \in Callers :
          /\ (call[c].pc = "idle" /\ call'[c] # call[c]) =>
                IF call'[c].pc = "idle"
                THEN call'[c].res = "notfound"
                ELSE plugins[call'[c].name] # 0
          /\ (/\ call[c].pc \notin {"idle", "metrics"}
              /\ call[c].fn \notin BureauFuncs(inst[call[c].inst].plugin)
              /\ call'[c].pc = "idle")
                => /\ call'[c].res = "funcnotfound"
                   /\ call[c].invoked = 0]_vars

\* C12: a Call that finds a current instance but no breaker entry goes on to
\* invoke the function, neither refused nor faulting, and Allow,
\* RecordSuccess and RecordFailure on an absent breaker change nothing, Allow
\* answering true.
C12_AbsentBreakerAllows ==
    [][/\ \A c \in Callers :
            (/\ call[c].pc = "breaker"
             /\ call'[c] # call[c]
             /\ breakers[call[c].name] = 0)
                => /\ call'[c].pc \in {"allow", "invoke"}
                   /\ call'[c].res \notin {"panic", "circuitopen"}
       /\ Allow(NoBreaker) = [ok |-> TRUE, cb |-> NoBreaker]
       /\ RecordSuccess(NoBreaker) = NoBreaker
       /\ RecordFailure(NoBreaker) = NoBreaker]_vars

\* C13: no Call is refused by a breaker that was made for a load whose
\* configuration has CircuitBreaker.Enabled = false.
C13_DisabledBreakerNeverRefuses ==
    [][\A c \in Callers :
          (Leaves(c, "allow") /\ ~CircuitBreakerEnabled(call[c].brk))
              => call'[c].pc = "invoke"]_vars

\* load b is the only load since NewManager installed 1.0.0, it was given the
\* artifact of 2.0.0 and has returned nil
Upgraded(b) ==
    /\ b # 1
    /\ ld[b] = [IdleLoad EXCEPT !.pc = "done", !.path = <<"v2", "p", ".so">>,
                                !.old = 1, !.res = "ok",
                                !.cache = {<<"v2", "p", ".so">>},
                                !.plug = b, !.opens = 1]
    /\ \A l \in Loaders \ {1, b} : ld[l] = IdleLoad

\* what the registry shows once load b has upgraded 1.0.0 to 2.0.0
ShowsUpgrade(b) ==
    /\ ListPlugins = { [name |-> "p", state |-> "Active",
                        version |-> <<"2", ".", "0", ".", "0">>] }
    /\ inst[1].state = "Deprecated"

\* C14: once 1.0.0 and then 2.0.0 have been loaded for a name, ListPlugins
\* has exactly one entry for it, with version 2.0.0 and state Active, the
\* instance of 1.0.0 is Deprecated, and every Call started from then on gets
\* the instance of 2.0.0 and runs against its function table.
C14_UpgradeReplacesCurrent ==
    [][\A b \in Loaders :
          /\ Upgraded(b) => ShowsUpgrade(b)
          /\ Upgraded(b)' => ShowsUpgrade(b)'
          /\ Upgraded(b) =>
                \A c \in Callers :
                    /\ (call[c].pc = "idle" /\ call'[c] # call[c]
                        /\ call'[c].res # "notfound")
                          => /\ call'[c].pc = "breaker"
                             /\ call'[c].inst = b
                    /\ (Leaves(c, "invoke") /\ call[c].inst = b)
                          => (call'[c].invoked = 1
                                <=> call[c].fn \in BureauFuncs(<<"v2", "p", ".so">>))]_vars

\* after the upgrade by load 2 a Call has run g, which only 2.0.0 has
C14_Witness ==
    /\ Upgraded(2)
    /\ ShowsUpgrade(2)
    /\ \E c \in Callers :
          /\ call[c].pc = "record" /\ call[c].inst = 2
          /\ call[c].fn = "g" /\ call[c].invoked = 1

\* the pairs <<new, current>> of artifacts whose versions 1.0.0 < 1.5.0 < 2.0.0
\* make the new one strictly greater
StrictlyGreater == { <<"v2", "v1">>, <<"v2", "v15">>, <<"v15", "v1">> }

\* C15: a LoadPluginWithConfig whose module is not of a strictly higher
\* version than the current instance of its name goes on to discard it: it
\* calls the new module's Free once and never its Init, returns nil, and
\* changes no registry entry, no instance and no breaker.
C15_NotNewerIsDiscarded ==
    [][\A l \in Loaders :
          LET name == getPluginNameFromPath(ld[l].path)
          IN  /\ (/\ ld[l].pc = "check" /\ ld'[l] # ld[l]
                  /\ plugins[name] # 0
                  /\ <<ld[l].path[1], inst[plugins[name]].plugin[1]>> \notin StrictlyGreater)
                    => /\ ld'[l].pc = "discard"
                       /\ inits' = inits /\ frees' = frees
              /\ (ld[l].pc = "discard" /\ ld'[l] # ld[l])
                    => /\ ld'[l] = [ld[l] EXCEPT !.pc = "done", !.res = "ok"]
                       /\ frees' = [frees EXCEPT ![ld[l].path] = @ + 1]
                       /\ inits' = inits
                       /\ plugins' = plugins /\ pluginPaths' = pluginPaths
                       /\ breakers' = breakers
                       /\ inst' = inst /\ cb' = cb]_vars

\* a load of another artifact found a current instance that was not older,
\* freed its own module without initialising it and returned nil, and the
\* current instance is still the one it found, Active
C15_Witness ==
    \E l \in Loaders :
        /\ ld[l].pc = "done" /\ ld[l].res = "ok" /\ ld[l].old # 0
        /\ ld[l].path # inst[ld[l].old].plugin
        /\ frees[ld[l].path] = 1 /\ inits[ld[l].path] = 0
        /\ plugins[getPluginNameFromPath(ld[l].path)] = ld[l].old
        /\ inst[ld[l].old].state = "Active"

\* C16: when plugin.Init of a newly loaded module fails, LoadPluginWithConfig
\* returns an error, has called the new module's Free once and stores
\* nothing, and the instance that was current for the name is still current
\* and still Active.
C16_FailedInitLeavesCurrent ==
    [][\A l \in Loaders :
          LET name == getPluginNameFromPath(ld[l].path)
          IN  (ld[l].pc = "init" /\ ld'[l].res = "error")
                  => /\ ld'[l].pc = "done"
                     /\ frees' = [frees EXCEPT ![ld[l].path] = @ + 1]
                     /\ plugins' = plugins /\ pluginPaths' = pluginPaths
                     /\ breakers' = breakers
                     /\ plugins[name] # 0 =>
                            inst'[plugins[name]].state = "Active"]_vars

\* C17: with Calls of several goroutines racing a load of the same name, a
\* Call takes its instance from the registry once, the instance it takes is
\* the one registered at that moment, fully constructed and initialised, and
\* it keeps that one instance until it returns and invokes the function from
\* that instance's table.
C17_OneInstancePerCall ==
    [][\A c \in Callers :
          /\ (call[c].pc = "idle" /\ call'[c].pc # "idle") =>
                LET i == call'[c].inst
                IN  /\ i # 0 /\ i = plugins[call'[c].name]
                    /\ inst[i].made
                    /\ inst[i].version = BureauVersion(inst[i].plugin)
                    /\ inits[inst[i].plugin] >= 1
                    /\ ld[i].pc \in {"storePath", "storeBreaker", "done"}
          /\ (call[c].pc # "idle" /\ call'[c].pc # "idle") =>
                /\ call'[c].inst = call[c].inst
                /\ call'[c].name = call[c].name /\ call'[c].fn = call[c].fn
          /\ call[c].pc # "idle" =>
                /\ inst'[call[c].inst].plugin = inst[call[c].inst].plugin
                /\ inst'[call[c].inst].version = inst[call[c].inst].version
          /\ Leaves(c, "invoke") =>
                (call'[c].invoked = 1
                    <=> call[c].fn \in BureauFuncs(inst[call[c].inst].plugin))]_vars

\* two Calls are in flight after the upgrade to 2.0.0 was stored: one took
\* the 1.0.0 instance before, the other the 2.0.0 instance after, and each
\* has invoked its function
C17_Witness ==
    /\ plugins["p"] = 2 /\ inst[2].plugin = <<"v2", "p", ".so">>
    /\ \E c, d \in Callers :
          /\ call[c].pc = "record" /\ call[c].inst = 1 /\ call[c].invoked = 1
          /\ call[d].pc = "record" /\ call[d].inst = 2 /\ call[d].invoked = 1
          /\ call[d].fn = "g"

\* the instances that were stored in m.plugins at some time
Installed == { l \in Loaders : inst[l].made /\ ld[l].pc \in {"storePath", "storeBreaker", "done"} }

\* C18: once Close has returned, m.plugins has no entry and the module of
\* every instance that was ever stored in it, current or superseded, has had
\* its Free called exactly once.
C18_CloseFreesEveryInstance ==
    mgr.close = "done" =>
        /\ \A n \in Names : plugins[n] = 0
        /\ \A l \in Installed : frees[inst[l].plugin] = 1

\* the same with "at least once", a statement that reloads of an installed
\* artifact do not disturb
C18_CloseFreesAtLeastOnce ==
    mgr.close = "done" =>
        /\ \A n \in Names : plugins[n] = 0
        /\ \A l \in Installed : frees[inst[l].plugin] >= 1

\* C19: Close cancels the manager's context as its first step and changes
\* nothing else with it; when it calls the Free of an instance the watcher
\* goroutine and the resetLoop of every breaker have returned; and from the
\* first Free on, the only change to the registry is Close's own Delete and
\* no breaker's state or failure count changes.
C19_TeardownAfterBackgroundTasks ==
    [][/\ (mgr.close = "idle" /\ mgr'.close # "idle")
            => /\ mgr'.ctx = "cancelled" /\ mgr'.close = "wait"
               /\ frees' = frees /\ plugins' = plugins
       /\ (mgr.close = "range" /\ mgr'.close = "delete")
            => /\ mgr.ctx = "cancelled"
               /\ mgr.watcher \in {"none", "done"}
               /\ \A l \in Loaders : cb[l].made => cb[l].loop = "done"
       /\ mgr.close \in {"delete", "done"} \/ mgr.visited # {}
            => /\ plugins' # plugins => mgr.close = "delete"
               /\ pluginPaths' = pluginPaths /\ breakers' = breakers
               /\ \A l \in Loaders : /\ cb'[l].state = cb[l].state
                                      /\ cb'[l].failures = cb[l].failures]_vars

\* C20: when Close has finished its sleep and turns to freeing the instances,
\* no Manager.Call that was in flight when Close was invoked is still in
\* flight: as long as no Call has begun since Close was invoked, no Call is
\* in flight at all.
C20_CallsEndBeforeTeardown ==
    (mgr.close \in {"range", "delete", "done"} /\ ncalls = mgr.begun)
        => \A c \in Callers : call[c].pc = "idle"

\* C21: Close's Range over m.plugins calls Free on an entry and deletes it
\* whether or not the Free failed, goes on to the entries left, and when it
\* returns every entry is gone, every registered instance has been freed
\* once, and the result is an error exactly when some Free failed.
C21_TeardownFailuresCollected ==
    [][/\ (mgr.close = "range" /\ mgr'.close # "range" /\ mgr'.close # "done")
            => /\ mgr'.close = "delete" /\ plugins[mgr'.cur] # 0
               /\ frees' = [frees EXCEPT ![inst[plugins[mgr'.cur]].plugin] = @ + 1]
               /\ mgr.errs \subseteq mgr'.errs
               /\ plugins' = plugins
       /\ (mgr.close = "delete" /\ mgr'.close # "delete")
            => /\ mgr'.close = "range"
               /\ plugins' = [plugins EXCEPT ![mgr.cur] = 0]
               /\ mgr'.errs = mgr.errs
       /\ (mgr.close # "done" /\ mgr'.close = "done")
            => /\ mgr.close = "range"
               /\ \A n \in Names : plugins'[n] = 0
               /\ \A l \in Loaders : inst[l].made => frees'[inst[l].plugin] = 1
               /\ mgr'.res = "error" <=> mgr.errs # {}
               /\ mgr'.res = "nil" <=> mgr.errs = {}]_vars

\* the Free of p has failed, and Close has gone on to free q and is about to
\* delete it
C21_Witness ==
    /\ mgr.close = "delete" /\ mgr.cur = "q"
    /\ mgr.errs = {"p"} /\ plugins["p"] = 0
    /\ frees[OtherPath] = 1

\* count, total, smallest and largest of a multiset of durations, given as the
\* number of samples of each duration (min and max 0 when there is none)
Aggregate(ms) ==
    LET RECURSIVE Cnt(_)
        Cnt(d) == IF d = 0 THEN 0 ELSE ms[d] + Cnt(d - 1)
        RECURSIVE Tot(_)
        Tot(d) == IF d = 0 THEN 0 ELSE d * ms[d] + Tot(d - 1)
        present == { d \in Durations : ms[d] > 0 }
    IN  [count |-> Cnt(MaxDuration),
         total |-> Tot(MaxDuration),
         min   |-> IF present = {} THEN 0
                   ELSE CHOOSE d \in present : \A e \in present : d <= e,
         max   |-> IF present = {} THEN 0
                   ELSE CHOOSE d \in present : \A e \in present : d >= e]

\* C22: whenever no RecordMetric call is in progress, the MethodMetrics of the
\* pair holds the number, the sum, the smallest and the largest of the
\* durations recorded so far, however the calls interleaved.
C22_BucketIsAggregate ==
    (\A r \in Recorders : rec[r].pc = "idle") =>
        IF Begun = 0 THEN ~HasBucket(metrics)
        ELSE HasBucket(metrics) /\ Bucket(metrics) = Aggregate(samples.begun)

\* every RecordMetric call has returned and the three samples 2, 1, 2 they
\* recorded are all in the bucket
C22_Witness ==
    /\ \A r \in Recorders : rec[r].pc = "idle"
    /\ HasBucket(metrics)
    /\ Bucket(metrics) = [count |-> 3, total |-> 5, min |-> 1, max |-> 2]

\* the multisets of samples some RecordMetric calls begun so far have recorded
SomeOfTheSamples ==
    { ms \in [Durations -> 0 .. MaxSamples] :
        \A d \in Durations : ms[d] <= samples.begun[d] }

\* C23: the MethodMetrics that GetPluginMetrics returns for the function holds
\* count, total, min and max of some of the RecordMetric calls made so far,
\* taken as wholes.
C23_SnapshotOfWholeCalls ==
    (snap.pc = "idle" /\ snap.res = "ok")
        => \E ms \in SomeOfTheSamples : snap.got = Aggregate(ms)

\* C24: a RecordMetric call that finds the collector disabled returns without
\* changing or creating any bucket, a GetPluginMetrics call that finds it
\* disabled returns the "disabled" error, and neither switching the
\* collector off or on nor the time it is off, with no recording under way,
\* changes what was recorded.
C24_DisabledCollector ==
    [][/\ (~enabled /\ samples' # samples)
            => /\ metrics' = metrics /\ rec' = rec
               /\ samples' = [samples EXCEPT !.refused = @ + 1]
       /\ (~enabled /\ snap.pc = "idle" /\ snap' # snap)
            => snap' = [IdleSnapshot EXCEPT !.res = "disabled"]
       /\ enabled' # enabled => metrics' = metrics
       /\ (~enabled /\ \A r \in Recorders : rec[r].pc = "idle")
            => metrics' = metrics]_vars

\* samples were recorded, the collector was switched off, and since then a
\* RecordMetric call has returned at once and a GetPluginMetrics call has
\* failed, with the bucket still holding the earlier samples
C24_Witness ==
    /\ ~enabled
    /\ \A r \in Recorders : rec[r].pc = "idle"
    /\ samples.refused >= 1
    /\ snap = [IdleSnapshot EXCEPT !.res = "disabled"]
    /\ HasBucket(metrics) /\ Bucket(metrics).count = 2
    /\ Bucket(metrics) = Aggregate(samples.begun)

\* what m.plugins held after the first k deletions of Close, when it held
\* every name at 1.0.0 and Active before
RegistryAfter(k) ==
    { [name |-> n, version |-> BureauVersion(pluginPaths[n]), state |-> "Active"] :
        n \in { x \in Names : \A i \in 1 .. k : mgr.deleted[i] # x } }

\* C25: the list ListPlugins has returned has at most one entry per name and
\* is what m.plugins held at one moment between the call and the return.
C25_ListIsPointInTime ==
    mgr.list.pc = "done" =>
        /\ \A a, b \in mgr.list.out : a.name = b.name => a = b
        /\ \E k \in mgr.list.from .. mgr.list.upto :
               mgr.list.out = RegistryAfter(k)

\* C26: in every state a name has an entry in m.breakers exactly when it has
\* one in m.plugins.
C26_BreakerSlotIffInstance ==
    \A n \in Names : breakers[n] # 0 <=> plugins[n] # 0

\* one step of the watcher goroutine as C27 describes it
WatcherStepAsDescribed ==
    /\ mgr.watcher = "select"
        /\ (mgr'.ev # mgr.ev \/ mgr'.watcher = "loading")
       => /\ mgr'.events = mgr.events + 1
          /\ IF mgr'.ev = [op |-> "Create", ext |-> ".so"]
             THEN mgr'.watcher = "loading" /\ ld[mgr'.wload] = IdleLoad
             ELSE mgr'.watcher = "select" /\ ld' = ld
    /\ mgr.watcher = "select" /\ mgr'.logged # mgr.logged
       => /\ mgr'.logged = mgr.logged + 1
          /\ mgr'.watcher = "select"
    /\ mgr.watcher = "loading" /\ mgr'.watcher # "loading"
       => /\ ld[mgr.wload].pc = "done"
          /\ mgr'.watcher = "select"
          /\ mgr'.logged = mgr.logged
                            + (IF ld[mgr.wload].res = "error" THEN 1 ELSE 0)
    /\ mgr.watcher # "done" /\ mgr'.watcher = "done"
       => mgr.ctx = "cancelled"

C28_SecondLoadIsCached ==
    [][\A l1, l2 \in Loaders :
          (/\ l1 # l2
           /\ ld[l1].pc = "done" /\ ld[l1].res = "ok" /\ ld[l1].plug # 0
           /\ ld[l2].pc = "idle" /\ ld'[l2].pc = "check"
           /\ ld'[l2].path = ld[l1].path)
          => /\ ld'[l2].plug = ld[l1].plug
             /\ ld'[l2].opens = 0]_vars

\* C29: Loader.Load of an artifact without Export or Functions symbol, with
\* one of them of another type, or with a Functions entry of empty name or
\* nil function fails whatever else the artifact holds; and a
\* LoadPluginWithConfig whose Loader.Load fails (these cases, a failed or a
\* timed out plugin.Open) returns an error at once, with no Plugin made,
\* nothing in the Loader's cache, and the registry, the instances, the
\* breakers and the artifacts' Init and Free counts as they were.
C29_FailedLoadChangesNothing ==
    [][\A l \in Loaders :
          ld[l].pc = "idle" /\ ld'[l].pc # "idle"
          => /\ ld'[l].path \in BadPaths => ld'[l].res = "error"
             /\ ld'[l].res = "error"
                => /\ ld'[l].pc = "done"
                   /\ ld'[l].plug = 0 /\ ld'[l].cache = {}
                   /\ UNCHANGED <<plugins, pluginPaths, breakers, inst, cb,
                                  inits, frees>>]_vars

\* an artifact whose Functions map has one nil function beside a valid one
\* was refused while the registry holds the plugin another load installed
C29_Witness ==
    \E l, k \in Loaders :
        /\ ld[l].path = <<"nilfunc", "p", ".so">>
        /\ ld[l].pc = "done" /\ ld[l].res = "error"
        /\ plugins["p"] = k /\ inst[k].made /\ breakers["p"] = k

\* a configuration with the option map it points to in the memory m
Deref(c, m) == [c EXCEPT !.Options = m[c.Options]]

\* the default d with every field of the override o that is set substituted
\* and the options merged key by key, those of o winning
MergedAsDescribed(d, o) ==
    [InitArgs |-> IF o.InitArgs # <<>> THEN o.InitArgs ELSE d.InitArgs,
     CircuitBreaker |-> IF o.CircuitBreaker # ZeroBreakerConfig
                        THEN o.CircuitBreaker ELSE d.CircuitBreaker,
     MaxConcurrentCalls |-> IF o.MaxConcurrentCalls # 0
                            THEN o.MaxConcurrentCalls ELSE d.MaxConcurrentCalls,
     PluginTimeout |-> IF o.PluginTimeout # 0
                       THEN o.PluginTimeout ELSE d.PluginTimeout,
     Options |-> [k \in DOMAIN d.Options \cup DOMAIN o.Options |->
                    IF k \in DOMAIN o.Options THEN o.Options[k]
                    ELSE d.Options[k]]]

\* the configuration of name n, from the Config as it was given
ConfigAsDescribed(n) ==
    IF n \in DOMAIN cfg.PluginConfigs
    THEN MergedAsDescribed(Deref(cfg.Default, cfg.was),
                           Deref(cfg.PluginConfigs[n], cfg.was))
    ELSE Deref(cfg.Default, cfg.was)

\* C30: the configuration obtained for a name, and the one a load of a
\* plugin of that name is given, is at any later time the default with the
\* set fields of the name's override substituted and the options merged,
\* the default itself for a name without override; and the default
\* configuration stays as it was given.
C30_MergedConfig ==
    /\ \A n \in Names :
          cfg.got[n] # NoConfig
          => Deref(cfg.got[n], cfg.maps) = ConfigAsDescribed(n)
    /\ \A n \in Names :
          cfg.used[n] # NoConfig
          => Deref(cfg.used[n], cfg.maps) = ConfigAsDescribed(n)
    /\ Deref(cfg.Default, cfg.maps) = Deref(cfg.Default, cfg.was)

\* the number a part stands for: its decimal value, zero when it is no number
PartValue(part) ==
    IF part # <<>> /\ \A i \in 1 .. Len(part) : IsDigit(part[i])
    THEN DecVal(part) ELSE 0

\* the three-part numeric version of a version string
ThreePart(v) ==
    LET ps == SplitDots(v)
    IN  [i \in 1 .. 3 |-> IF i <= Len(ps) THEN PartValue(ps[i]) ELSE 0]

LexGreater(a, b) ==
    \E i \in 1 .. 3 : a[i] > b[i] /\ \A j \in 1 .. i - 1 : a[j] = b[j]

\* C31: isHigherVersion returns a result for every two version strings, true
\* exactly when the three-part numeric version of the new one is
\* lexicographically strictly greater than that of the current one (so not
\* for equal versions, and not in both directions).
C31_VersionComparison ==
    vcmp.fwd # "none"
    => /\ vcmp.fwd \in {"true", "false"} /\ vcmp.back \in {"true", "false"}
       /\ vcmp.fwd = "true"
           <=> LexGreater(ThreePart(vcmp.new), ThreePart(vcmp.current))
       /\ ~(vcmp.fwd = "true" /\ vcmp.back = "true")

C33_LoadInstallsFreshBreaker ==
    [][\A l \in Loaders :
          ld[l].pc = "storeBreaker" /\ ld'[l].pc = "done"
          => /\ breakers'[getPluginNameFromPath(ld[l].path)] = l
             /\ cb'[l].made /\ cb'[l].state = "Closed" /\ cb'[l].failures = 0
             /\ Allow(cb'[l]).ok]_vars

\* an upgrade has returned while the breaker of the instance it replaced is
\* Open, and a Call that came after it has been allowed by the new breaker
\* and is about to run the new instance
C33_Witness ==
    \E l \in Loaders :
        /\ ld[l].pc = "done" /\ ld[l].res = "ok" /\ ld[l].old # 0
        /\ cb[ld[l].old].state = "Open"
        /\ plugins["p"] = l /\ breakers["p"] = l /\ cb[l].state = "Closed"
        /\ call[1].pc = "invoke" /\ call[1].inst = l /\ call[1].brk = l

\* C34: a Close whose wait for the background tasks can end (the watcher
\* goroutine has returned) goes on to return, whatever the Calls in flight
\* do, also when one of them never ends.
C34_CloseReturns ==
    (mgr.close = "wait" /\ mgr.watcher = "done") ~> (mgr.close = "done")

\* Close has returned and freed the plugin while a Call that began before it
\* is still in the plugin's function
C34_Witness ==
    /\ mgr.close = "done" /\ mgr.res = "nil" /\ plugins["p"] = 0
    /\ call[1].pc = "record" /\ call[1].invoked = 1
    /\ mgr.begun = ncalls

\* C35: the breaker a Call consults and records on is the one that was made
\* by the load that made the instance it invokes, and no Call that found an
\* instance finds no breaker (the panic of the type assertion).
C35_InstanceWithItsBreaker ==
    \A c \in Callers :
        /\ call[c].pc \in {"allow", "invoke", "record", "metrics"}
           => call[c].brk = call[c].inst
        /\ call[c].res # "panic"

\* C36: when no LoadPluginWithConfig is in progress, the instance, the path
\* and the breaker registered for a name were stored by the same load, and
\* the instances of that name in state Active are the current one alone.
C36_RegistrationFromOneLoad ==
    (\A l \in Loaders : ld[l].pc \in {"idle", "done"})
    => \A n \in Names :
          plugins[n] # 0
          => /\ pluginPaths[n] = ld[plugins[n]].path
             /\ breakers[n] = plugins[n]
             /\ { l \in Loaders :
                     /\ inst[l].made /\ inst[l].state = "Active"
                     /\ getPluginNameFromPath(inst[l].plugin) = n }
                = {plugins[n]}

\* C37: whenever no goroutine is inside Allow, RecordSuccess or
\* RecordFailure and the reset loop is not inside a tick, a breaker in state
\* Closed has counted fewer than MaxFailures failures.
C37_ClosedBelowMaxFailures ==
    ((\A g \in Users : bk.op[g].pc = "idle") /\ bk.tick = "idle"
     /\ bk.state = "Closed")
    => bk.failures < MaxFailures

\* the breaker is Closed again with one failure counted, after it was opened
\* and half-opened, and nothing is in progress
C37_Witness ==
    /\ \A g \in Users : bk.op[g].pc = "idle"
    /\ bk.tick = "idle"
    /\ bk.state = "Closed" /\ bk.failures = MaxFailures - 1
    /\ bk.ops >= MaxFailures + 3

\* C38: while Close has not been invoked, no step of LoadPluginWithConfig,
\* whether it installs, discards or fails, calls Free on the module object of
\* the instance that is current for its name, also when the path loaded is
\* the path of the current instance.
C38_LoadNeverFreesCurrent ==
    [][ mgr.close = "idle"
        => \A n \in Names :
              plugins[n] # 0
              => frees'[inst[plugins[n]].plugin] = frees[inst[plugins[n]].plugin]
      ]_vars

\* C39: a Call whose function the plugin does not have is recorded on the
\* breaker as a failure: the counter goes up by one, the time of the last
\* failure is now, a Closed breaker that reaches MaxFailures goes Open, and
\* the Call returns the function-not-found error; an Open breaker whose
\* timeout has not passed refuses a Call of a function the plugin has.
C39_MissingFunctionCounts ==
    [][\A c \in Callers :
          LET b == call[c].brk
          IN  /\ (call[c].pc = "record" /\ call[c].err = "funcnotfound"
                  /\ call'[c] # call[c])
                 => /\ call'[c].res = "funcnotfound"
                    /\ cb'[b].failures = cb[b].failures + 1
                    /\ cb'[b].since = 0
                    /\ (cb[b].state = "Closed"
                        /\ cb[b].failures + 1 >= MaxFailures)
                       => cb'[b].state = "Open"
              /\ (call[c].pc = "allow" /\ call'[c] # call[c]
                  /\ call[c].fn \in BureauFuncs(inst[call[c].inst].plugin)
                  /\ cb[b].state = "Open" /\ cb[b].since <= TimeoutDuration)
                 => call'[c].res = "circuitopen"
      ]_vars

\* MaxFailures Calls of a function the plugin does not have, and no other
\* Call, were recorded on the breaker, it is Open within its timeout, and a
\* Call of a function the plugin has is at Allow
C39_Witness ==
    \E c \in Callers :
        /\ call[c].pc = "allow"
        /\ call[c].fn \in BureauFuncs(inst[call[c].inst].plugin)
        /\ cb[call[c].brk].state = "Open"
        /\ cb[call[c].brk].since <= TimeoutDuration
        /\ ~hist[call[c].brk].found
        /\ cb[call[c].brk].failures = MaxFailures
        /\ hist[call[c].brk].streak = MaxFailures
        /\ hist[call[c].brk].trips = 1

\* C40: once Close has been invoked a second time, no step calls Free on any
\* module, the registry is and stays empty, and the invocation ends with no
\* error and no panic.
C40_SecondCloseChangesNothing ==
    [][ mgr.closes >= 2
        => /\ frees' = frees
           /\ \A n \in Names : plugins[n] = 0 /\ plugins'[n] = 0
           /\ mgr'.res \in {"none", "nil"}
           /\ (mgr'.close = "done" => mgr'.res = "nil")
      ]_vars

\* the second Close has returned nil, after a first Close that freed and
\* deleted an upgraded plugin and closed the done channel of its breaker
C40_Witness ==
    /\ mgr.closes = 2 /\ mgr.close = "done" /\ mgr.res = "nil"
    /\ Len(mgr.deleted) >= 1
    /\ mgr.cbdone # {} /\ 1 \notin mgr.cbdone
    /\ \E p \in Artifacts : frees[p] >= 1

====
